---- MODULE Spec2Model ----
(***************************************************************************)
(* HttpPeer (src/net/server.rs): the single-threaded HTTP conversation     *)
(* registry and its tick, modelled as a state machine.                     *)
(*                                                                         *)
(* The three maps of HttpPeer are the functions peers, sockets and         *)
(* connecting, keyed by event id.  NetworkState (the Reactor) is the       *)
(* counter next_event_id, the set registered and, as a history of its      *)
(* deregister calls, dereg_calls.  ConversationHttp is an external         *)
(* capability: what its methods return is drawn nondeterministically at    *)
(* the call, and only the fields the engine reads (url, peer address,      *)
(* request-in-flight) are kept as state.                                   *)
(*                                                                         *)
(* connect_http and deregister_http are one action each.  run is a         *)
(* sequence of forced steps ordered by pc: one per phase of its body, and  *)
(* one per connection inside the loops that drive and flush the            *)
(* conversations; no other operation can start while a tick is in          *)
(* progress.  The variables tick, last and ret are history: they record    *)
(* what the steps of the current call were given and what they did.        *)
(*                                                                         *)
(* Spec is the engine with all its operations.  SpecOne is the engine with *)
(* one inbound socket, run tick after tick; there the history watch keeps  *)
(* what the conversation's methods returned in the current run and what    *)
(* the run before returned.  SpecLive is the engine with one connection    *)
(* and the loop of saturate_http_socket run send by send, under fairness.  *)
(* SpecPair is the engine after one connect call, with one inbound socket, *)
(* run tick after tick with any ready set.                                 *)
(*                                                                         *)
(* The signer's StackerDB client (stacks-signer/src/v0/stackerdb.rs) and   *)
(* message codec (libsigner/src/v0/messages.rs) share nothing with the     *)
(* engine: SpecDB runs send_message_bytes_with_retry turn by turn against  *)
(* a StackerDB that may answer anything, SpecStored against a StackerDB    *)
(* that accepts a chunk when its version is newer than the one it holds,   *)
(* and SpecCodec serializes a value to bytes and reads it back.            *)
(***************************************************************************)
EXTENDS Integers, Sequences, FiniteSets, TLC

\* Bounds of the model.
MaxEvents == 2          \* event ids the Reactor hands out: 1..MaxEvents
MaxNew == 1             \* newly accepted sockets in one readiness batch
MaxReady == 2           \* ready event ids in one readiness batch
MaxPending == 2         \* bytes a conversation holds for its socket at a saturate
MaxAttempts == 2        \* put_chunk attempts in one StackerDB send
MaxSends == 2           \* StackerDB sends in one behaviour

EventIds == 1..MaxEvents
Hosts == {"h1", "h2"}
Urls == {"u1", "u2"}
NoUrl == "none"         \* Option<UrlString>::None

\* The (resolved) socket address of a data URL's origin: connect_http's addr.
ResolvedHost(url) == IF url = "u1" THEN "h1" ELSE "h2"

\* ConnectionOptions the engine is constructed with.
ConnectionOptionChoices ==
    { [num_clients |-> 1, max_clients_per_host |-> 0, idle_timeout |-> 1],
      [num_clients |-> 2, max_clients_per_host |-> 1, idle_timeout |-> 1] }

VARIABLES
    connection_opts,    \* HttpPeer.connection_opts
    peers,              \* HttpPeer.peers: event id -> conversation
    sockets,            \* HttpPeer.sockets: event id -> socket
    connecting,         \* HttpPeer.connecting: event id -> (socket, url, request)
    next_event_id,      \* NetworkState: the next identifier it hands out
    registered,         \* NetworkState: event ids it has registered
    dereg_calls,        \* history: NetworkState::deregister calls per event id
    engine_registered,  \* history: event ids the engine registered with NetworkState
    pc,                 \* position: "idle", a phase of run, or "done"
    todo,               \* run: what the loop of the current phase has yet to visit
    to_remove,          \* run: the event ids the current phase collects to deregister
    stacks_msgs,        \* run: messages collected by process_ready_sockets
    tick,               \* history of the current tick: who was driven, marked, removed
    last,               \* history: what the latest step was given and what it did
    ret,                \* the result the last public call returned
    watch,              \* history kept by SpecOne: the calls on its one conversation
    sat,                \* SpecLive: saturate_http_socket's loop, while it runs
    stackerdb,          \* SpecDB: the signer's StackerDB client and its send call
    codec,              \* SpecCodec: a signer message, its bytes, what they decode to
    stored              \* SpecStored: the version the StackerDB holds of each slot

vars == << connection_opts, peers, sockets, connecting, next_event_id, registered,
           dereg_calls, engine_registered, pc, todo, to_remove, stacks_msgs, tick,
           last, ret, watch, sat, stackerdb, codec, stored >>

\* The signer's components, which no operation of HttpPeer touches.
signer == << stackerdb, codec, stored >>

\* ------------------------------------------------------------------ helpers

Remove(f, k) == [x \in DOMAIN f \ {k} |-> f[x]]
Put(f, k, v) == [x \in DOMAIN f \cup {k} |-> IF x = k THEN v ELSE f[x]]
EmptyMap == [x \in {} |-> 0]

\* The ascending sequence of the elements of a finite set of integers.
RECURSIVE SortedSeq(_)
SortedSeq(s) ==
    IF s = {} THEN << >>
    ELSE LET m == CHOOSE x \in s : \A y \in s : x <= y
         IN  << m >> \o SortedSeq(s \ {m})

SeqToSet(q) == { q[i] : i \in 1..Len(q) }

\* The engine's registry and the Reactor's bookkeeping, as one value that the
\* operators below take and return.
Registry ==
    [ peers |-> peers, sockets |-> sockets, connecting |-> connecting,
      registered |-> registered, dereg_calls |-> dereg_calls,
      engine_registered |-> engine_registered ]

\* NetworkState::register(server_handle, event_id, sock), when it succeeds.
network_register(S, event_id) ==
    [ S EXCEPT !.registered = @ \cup {event_id},
               !.engine_registered = @ \cup {event_id} ]

\* NetworkState::deregister(event_id, sock): its result is ignored by every caller.
network_deregister(S, event_id) ==
    [ S EXCEPT !.registered = @ \ {event_id},
               !.dereg_calls = [@ EXCEPT ![event_id] = @ + 1] ]

\* ------------------------------------------------------- connect / admission

\* find_free_conversation without the is_request_inflight() test.
find_free_conversation_any(S, data_url) ==
    { event_id \in DOMAIN S.peers :
        /\ S.peers[event_id].url # NoUrl
        /\ S.peers[event_id].url = data_url }

\* Is there a HTTP conversation open to this data_url that is not in progress?
\* The candidates peers.iter() can return first (HashMap order is unspecified);
\* the empty set is None.
find_free_conversation(S, data_url) ==
    { event_id \in DOMAIN S.peers :
        /\ S.peers[event_id].url # NoUrl
        /\ S.peers[event_id].url = data_url
        /\ ~S.peers[event_id].inflight }

\* How many conversations are connected from this IP address?
count_inbound_ip_addrs(S, peer_ip) ==
    Cardinality({ event_id \in DOMAIN S.peers :
                    /\ S.peers[event_id].url = NoUrl
                    /\ S.peers[event_id].ip = peer_ip })

\* can_register_http without the test of the total number of peers.
can_register_http_per_host(S, peer_ip, outbound_url) ==
    IF count_inbound_ip_addrs(S, peer_ip) > connection_opts.max_clients_per_host
    THEN "TooManyPeers"
    ELSE "Ok"

\* can_register_http comparing peers.len() instead of peers.len() + 1.
can_register_http_loose(S, peer_ip, outbound_url) ==
    IF outbound_url = NoUrl
       /\ Cardinality(DOMAIN S.peers) > connection_opts.num_clients
    THEN "TooManyPeers"
    ELSE IF count_inbound_ip_addrs(S, peer_ip) > connection_opts.max_clients_per_host
    THEN "TooManyPeers"
    ELSE "Ok"

\* Can we register this socket?
can_register_http(S, peer_ip, outbound_url) ==
    IF outbound_url = NoUrl
       /\ Cardinality(DOMAIN S.peers) + 1 > connection_opts.num_clients
    THEN "TooManyPeers"
    ELSE IF count_inbound_ip_addrs(S, peer_ip) > connection_opts.max_clients_per_host
    THEN "TooManyPeers"
    ELSE "Ok"

\* ConversationHttp::new: bound to the peer's address and the target URL, with
\* no request in flight.
ConversationHttp_new(peer_ip, outbound_url) ==
    [ url |-> outbound_url, ip |-> peer_ip, inflight |-> FALSE ]

\* ConversationHttp::send_request, when it succeeds: the request is in flight.
send_request(convo) == [ convo EXCEPT !.inflight = TRUE ]

\* Which call inside register_http fails, if any.
RegisterFailures == { "none", "peer_addr", "send_request", "saturate" }

\* register_http without new_convo.send_request(initial_request).
register_http_no_request(S, event_id, socket, outbound_url, initial_request, fail) ==
    IF fail = "peer_addr"
    THEN [ S |-> S, res |-> "SocketError" ]
    ELSE IF can_register_http(S, socket.ip, outbound_url) # "Ok"
    THEN [ S |-> network_deregister(S, event_id),
           res |-> can_register_http(S, socket.ip, outbound_url) ]
    ELSE [ S |-> [ S EXCEPT
                     !.sockets = Put(@, event_id, socket),
                     !.peers = Put(@, event_id,
                                   ConversationHttp_new(socket.ip, outbound_url)) ],
           res |-> "Ok" ]

\* register_http returning the error of send_request or saturate_http_socket
\* without network_state.deregister.
register_http_leave_registered(S, event_id, socket, outbound_url, initial_request, fail) ==
    IF fail = "peer_addr"
    THEN [ S |-> S, res |-> "SocketError" ]
    ELSE IF can_register_http(S, socket.ip, outbound_url) # "Ok"
    THEN [ S |-> network_deregister(S, event_id),
           res |-> can_register_http(S, socket.ip, outbound_url) ]
    ELSE IF initial_request /\ fail = "send_request"
    THEN [ S |-> S, res |-> "SendRequestError" ]
    ELSE IF initial_request /\ fail = "saturate"
    THEN [ S |-> S, res |-> "WriteError" ]
    ELSE LET new_convo == ConversationHttp_new(socket.ip, outbound_url)
         IN  [ S |-> [ S EXCEPT
                        !.sockets = Put(@, event_id, socket),
                        !.peers = Put(@, event_id,
                                      IF initial_request THEN send_request(new_convo)
                                      ELSE new_convo) ],
               res |-> "Ok" ]

\* Low-level method to register a socket/event pair.  fail names the call that
\* fails: socket.peer_addr(), new_convo.send_request() or saturate_http_socket().
\* Returns the registry and the Result.
register_http(S, event_id, socket, outbound_url, initial_request, fail) ==
    IF fail = "peer_addr"
    THEN [ S |-> S, res |-> "SocketError" ]
    ELSE IF can_register_http(S, socket.ip, outbound_url) # "Ok"
    THEN [ S |-> network_deregister(S, event_id),
           res |-> can_register_http(S, socket.ip, outbound_url) ]
    ELSE IF initial_request /\ fail = "send_request"
    THEN [ S |-> network_deregister(S, event_id), res |-> "SendRequestError" ]
    ELSE IF initial_request /\ fail = "saturate"
    THEN [ S |-> network_deregister(S, event_id), res |-> "WriteError" ]
    ELSE LET new_convo == ConversationHttp_new(socket.ip, outbound_url)
         IN  [ S |-> [ S EXCEPT
                        !.sockets = Put(@, event_id, socket),
                        !.peers = Put(@, event_id,
                                      IF initial_request THEN send_request(new_convo)
                                      ELSE new_convo) ],
               res |-> "Ok" ]

\* deregister_http calling NetworkState::deregister whether or not it holds
\* the socket.
deregister_http_always(S, event_id) ==
    LET S1 == IF event_id \in DOMAIN S.peers
              THEN [ S EXCEPT !.peers = Remove(@, event_id) ]
              ELSE S
    IN  [ network_deregister(S1, event_id) EXCEPT
            !.sockets = Remove(@, event_id),
            !.connecting = Remove(@, event_id) ]

\* deregister_http without self.sockets.remove.
deregister_http_keep_socket(S, event_id) ==
    LET S1 == IF event_id \in DOMAIN S.peers
              THEN [ S EXCEPT !.peers = Remove(@, event_id) ]
              ELSE S
    IN  IF event_id \in DOMAIN S1.sockets
        THEN [ network_deregister(S1, event_id) EXCEPT
                 !.connecting = Remove(@, event_id) ]
        ELSE S1

\* Deregister a socket/event pair.
deregister_http(S, event_id) ==
    LET S1 == IF event_id \in DOMAIN S.peers
              THEN [ S EXCEPT !.peers = Remove(@, event_id) ]
              ELSE S
    IN  IF event_id \in DOMAIN S1.sockets
        THEN [ network_deregister(S1, event_id) EXCEPT
                 !.sockets = Remove(@, event_id),
                 !.connecting = Remove(@, event_id) ]
        ELSE S1

\* Deregister every event id of a sequence, in order (the for loops of run and
\* of disconnect_unresponsive).
RECURSIVE deregister_all(_, _)
deregister_all(S, events) ==
    IF events = << >> THEN S
    ELSE deregister_all(deregister_http(S, Head(events)), Tail(events))

\* ---------------------------------------------------------------- the tick

\* What register_http was called with, which of its calls failed and what it
\* returned, for the history.
RegLog(S, socket, outbound_url, initial_request, fail, res) ==
    [ res |-> res, url |-> outbound_url, ip |-> socket.ip, request |-> initial_request,
      fail |-> fail,
      num_peers |-> Cardinality(DOMAIN S.peers),
      num_inbound |-> count_inbound_ip_addrs(S, socket.ip) ]

\* What can happen to one entry of poll_state.new: NetworkState::register
\* fails, socket.peer_addr() fails, or neither.
NewSocketFailures == { "none", "register", "peer_addr" }

\* process_new_sockets returning the error of register_http (a `?` in place
\* of `continue`).
RECURSIVE process_new_sockets_try(_, _)
process_new_sockets_try(R, new) ==
    IF new = << >> THEN R
    ELSE LET n == Head(new)
             S1 == network_register(R.S, n.event_id)
             r == register_http(S1, n.event_id, n.socket, NoUrl, FALSE, n.fail)
         IN  IF n.event_id \in DOMAIN R.S.peers
             THEN process_new_sockets_try(R, Tail(new))
             ELSE IF n.fail = "register"
             THEN process_new_sockets_try(R, Tail(new))
             ELSE IF r.res # "Ok"
             THEN [ S |-> r.S,
                    reg |-> Put(R.reg, n.event_id,
                                RegLog(S1, n.socket, NoUrl, FALSE, n.fail, r.res)),
                    res |-> r.res ]
             ELSE process_new_sockets_try(
                      [ S |-> r.S,
                        reg |-> Put(R.reg, n.event_id,
                                    RegLog(S1, n.socket, NoUrl, FALSE, n.fail, r.res)),
                        res |-> R.res ],
                      Tail(new))

\* Process new inbound HTTP connections we just accepted.  R is the registry S
\* with the history reg of the register_http calls and the Result res; new is
\* poll_state.new, each entry with its event id, its socket and what fails for it.
RECURSIVE process_new_sockets(_, _)
process_new_sockets(R, new) ==
    IF new = << >> THEN R
    ELSE LET n == Head(new)
             S1 == network_register(R.S, n.event_id)
             r == register_http(S1, n.event_id, n.socket, NoUrl, FALSE, n.fail)
         IN  IF n.event_id \in DOMAIN R.S.peers
             THEN process_new_sockets(R, Tail(new))
             ELSE IF n.fail = "register"
             THEN process_new_sockets(R, Tail(new))
             ELSE process_new_sockets(
                      [ S |-> r.S,
                        reg |-> Put(R.reg, n.event_id,
                                    RegLog(S1, n.socket, NoUrl, FALSE, n.fail, r.res)),
                        res |-> R.res ],
                      Tail(new))

\* process_connecting_sockets forgetting, after its loop, the pending
\* connections that were not ready.
RECURSIVE process_connecting_sockets_clear(_, _, _)
process_connecting_sockets_clear(R, ready, fails) ==
    IF ready = << >> THEN [ R EXCEPT !.S.connecting = EmptyMap ]
    ELSE LET event_id == Head(ready)
         IN  IF event_id \in DOMAIN R.S.connecting
             THEN LET c == R.S.connecting[event_id]
                      S1 == [ R.S EXCEPT !.connecting = Remove(@, event_id) ]
                      r == register_http(S1, event_id, c.socket, c.url, c.request,
                                         fails[event_id])
                  IN  process_connecting_sockets_clear(
                          [ S |-> r.S,
                            reg |-> Put(R.reg, event_id,
                                        RegLog(S1, c.socket, c.url, c.request,
                                               fails[event_id], r.res)),
                            res |-> R.res ],
                          Tail(ready), fails)
             ELSE process_connecting_sockets_clear(R, Tail(ready), fails)

\* process_connecting_sockets reading the pending entry with get instead of
\* remove.
RECURSIVE process_connecting_sockets_keep(_, _, _)
process_connecting_sockets_keep(R, ready, fails) ==
    IF ready = << >> THEN R
    ELSE LET event_id == Head(ready)
         IN  IF event_id \in DOMAIN R.S.connecting
             THEN LET c == R.S.connecting[event_id]
                      r == register_http(R.S, event_id, c.socket, c.url, c.request,
                                         fails[event_id])
                  IN  process_connecting_sockets_keep(
                          [ S |-> r.S,
                            reg |-> Put(R.reg, event_id,
                                        RegLog(R.S, c.socket, c.url, c.request,
                                               fails[event_id], r.res)),
                            res |-> R.res ],
                          Tail(ready), fails)
             ELSE process_connecting_sockets_keep(R, Tail(ready), fails)

\* process_connecting_sockets putting the pending entry back when register_http
\* fails.
RECURSIVE process_connecting_sockets_retry(_, _, _)
process_connecting_sockets_retry(R, ready, fails) ==
    IF ready = << >> THEN R
    ELSE LET event_id == Head(ready)
         IN  IF event_id \in DOMAIN R.S.connecting
             THEN LET c == R.S.connecting[event_id]
                      S1 == [ R.S EXCEPT !.connecting = Remove(@, event_id) ]
                      r == register_http(S1, event_id, c.socket, c.url, c.request,
                                         fails[event_id])
                      S2 == IF r.res = "Ok" THEN r.S
                            ELSE [ r.S EXCEPT !.connecting = Put(@, event_id, c) ]
                  IN  process_connecting_sockets_retry(
                          [ S |-> S2,
                            reg |-> Put(R.reg, event_id,
                                        RegLog(S1, c.socket, c.url, c.request,
                                               fails[event_id], r.res)),
                            res |-> R.res ],
                          Tail(ready), fails)
             ELSE process_connecting_sockets_retry(R, Tail(ready), fails)

\* Process newly-connected sockets: every ready event id that is pending is
\* removed from connecting and registered.  fails[event_id] names the call of
\* register_http that fails for it.
RECURSIVE process_connecting_sockets(_, _, _)
process_connecting_sockets(R, ready, fails) ==
    IF ready = << >> THEN R
    ELSE LET event_id == Head(ready)
         IN  IF event_id \in DOMAIN R.S.connecting
             THEN LET c == R.S.connecting[event_id]
                      S1 == [ R.S EXCEPT !.connecting = Remove(@, event_id) ]
                      r == register_http(S1, event_id, c.socket, c.url, c.request,
                                         fails[event_id])
                  IN  process_connecting_sockets(
                          [ S |-> r.S,
                            reg |-> Put(R.reg, event_id,
                                        RegLog(S1, c.socket, c.url, c.request,
                                               fails[event_id], r.res)),
                            res |-> R.res ],
                          Tail(ready), fails)
             ELSE process_connecting_sockets(R, Tail(ready), fails)

\* What the conversation's methods can return while one ready conversation is
\* driven.  A call that is not made has outcome "NA"; resp tells whether the
\* bytes received complete the response to the request in flight.
AllDriveOutcomes ==
    { o \in [ recv : { "Ok", "PermanentlyDrained", "InvalidMessage", "RecvError" },
              reply : { "Ok", "Err", "NA" },
              saturate : { "Ok", "Err", "NA" },
              chat : { "Ok0", "Ok1", "Err" },
              send : { "Ok", "Err", "NA" },
              resp : BOOLEAN ] :
        /\ (o.reply = "NA") <=> (o.recv # "InvalidMessage")
        /\ (o.saturate = "NA") <=> (o.reply # "Ok")
        /\ (o.send = "NA") <=> ( \/ o.recv \in { "PermanentlyDrained", "RecvError" }
                                \/ o.reply = "Err"
                                \/ o.saturate = "Err"
                                \/ o.chat = "Err" )
        /\ o.resp => o.recv = "Ok" }

DriveOutcomes(convo) == { o \in AllDriveOutcomes : o.resp => convo.inflight }

\* The outcome recorded for a ready event id that has no conversation.
NoDrive ==
    [ recv |-> "NA", reply |-> "NA", saturate |-> "NA", chat |-> "NA", send |-> "NA",
      resp |-> FALSE ]

\* process_http_conversation forwarding a message for the bytes that failed
\* parsing.
process_http_conversation_forward_invalid(event_id, convo, o) ==
    LET dead_recv == \/ o.recv \in { "PermanentlyDrained", "RecvError" }
                     \/ (o.recv = "InvalidMessage" /\ o.reply = "Err")
                     \/ (o.recv = "InvalidMessage" /\ o.reply = "Ok"
                                                   /\ o.saturate = "Err")
        msgs == IF o.chat = "Ok1" \/ o.recv = "InvalidMessage"
                THEN << event_id >> ELSE << >>
        dead_chat == dead_recv \/ o.chat = "Err"
        convo_dead == dead_chat \/ o.send = "Err"
    IN  [ res |-> "Ok", alive |-> ~convo_dead, msgs |-> msgs,
          convo |-> IF o.resp THEN [ convo EXCEPT !.inflight = FALSE ] ELSE convo ]

\* process_http_conversation without convo_dead = true on a failed send.
process_http_conversation_send_alive(event_id, convo, o) ==
    LET dead_recv == \/ o.recv \in { "PermanentlyDrained", "RecvError" }
                     \/ (o.recv = "InvalidMessage" /\ o.reply = "Err")
                     \/ (o.recv = "InvalidMessage" /\ o.reply = "Ok"
                                                   /\ o.saturate = "Err")
        msgs == IF o.chat = "Ok1" THEN << event_id >> ELSE << >>
        convo_dead == dead_recv \/ o.chat = "Err"
    IN  [ res |-> "Ok", alive |-> ~convo_dead, msgs |-> msgs,
          convo |-> IF o.resp THEN [ convo EXCEPT !.inflight = FALSE ] ELSE convo ]

\* process_http_conversation calling chat only when recv left the
\* conversation alive.
process_http_conversation_chat_alive(event_id, convo, o) ==
    LET dead_recv == \/ o.recv \in { "PermanentlyDrained", "RecvError" }
                     \/ (o.recv = "InvalidMessage" /\ o.reply = "Err")
                     \/ (o.recv = "InvalidMessage" /\ o.reply = "Ok"
                                                   /\ o.saturate = "Err")
        msgs == IF ~dead_recv /\ o.chat = "Ok1" THEN << event_id >> ELSE << >>
        dead_chat == dead_recv \/ o.chat = "Err"
        convo_dead == dead_chat \/ o.send = "Err"
    IN  [ res |-> "Ok", alive |-> ~convo_dead, msgs |-> msgs,
          convo |-> IF o.resp THEN [ convo EXCEPT !.inflight = FALSE ] ELSE convo ]

\* Process network traffic on a HTTP conversation.  Returns whether or not the
\* convo is still alive, the messages to forward (each named by the event id it
\* came from) and the conversation.
process_http_conversation(event_id, convo, o) ==
    LET dead_recv == \/ o.recv \in { "PermanentlyDrained", "RecvError" }
                     \/ (o.recv = "InvalidMessage" /\ o.reply = "Err")
                     \/ (o.recv = "InvalidMessage" /\ o.reply = "Ok"
                                                   /\ o.saturate = "Err")
        msgs == IF o.chat = "Ok1" THEN << event_id >> ELSE << >>
        dead_chat == dead_recv \/ o.chat = "Err"
        convo_dead == dead_chat \/ o.send = "Err"
    IN  [ res |-> "Ok", alive |-> ~convo_dead, msgs |-> msgs,
          convo |-> IF o.resp THEN [ convo EXCEPT !.inflight = FALSE ] ELSE convo ]

\* process_ready_socket without msgs.append(&mut new_msgs).
process_ready_socket_drop_msgs(D, event_id, o) ==
    IF event_id \notin DOMAIN D.S.sockets
    THEN [ D EXCEPT !.to_remove = Append(@, event_id) ]
    ELSE IF event_id \in DOMAIN D.S.peers
    THEN LET r == process_http_conversation(event_id, D.S.peers[event_id], o)
         IN  IF r.res = "Ok"
             THEN [ S |-> [ D.S EXCEPT !.peers[event_id] = r.convo ],
                    msgs |-> D.msgs,
                    to_remove |-> IF r.alive THEN D.to_remove
                                  ELSE Append(D.to_remove, event_id) ]
             ELSE [ D EXCEPT !.to_remove = Append(@, event_id) ]
    ELSE [ D EXCEPT !.to_remove = Append(@, event_id) ]

\* The body of the loop of process_ready_sockets for one ready event id.  D
\* carries the registry S, the messages msgs and the failed events to_remove;
\* o is what the conversation's methods return.
process_ready_socket(D, event_id, o) ==
    IF event_id \notin DOMAIN D.S.sockets
    THEN [ D EXCEPT !.to_remove = Append(@, event_id) ]
    ELSE IF event_id \in DOMAIN D.S.peers
    THEN LET r == process_http_conversation(event_id, D.S.peers[event_id], o)
         IN  IF r.res = "Ok"
             THEN [ S |-> [ D.S EXCEPT !.peers[event_id] = r.convo ],
                    msgs |-> D.msgs \o r.msgs,
                    to_remove |-> IF r.alive THEN D.to_remove
                                  ELSE Append(D.to_remove, event_id) ]
             ELSE [ D EXCEPT !.to_remove = Append(@, event_id) ]
    ELSE [ D EXCEPT !.to_remove = Append(@, event_id) ]

\* What try_flush, is_drained and is_keep_alive return for one conversation.
FlushOutcomes == [ try_flush : { "Ok", "Err" }, drained : BOOLEAN, keep_alive : BOOLEAN ]

\* flush_conversation closing only the connections whose try_flush failed.
flush_conversation_broken_only(close, event_id, fl) ==
    IF fl.try_flush = "Err" THEN Append(close, event_id) ELSE close

\* flush_conversation closing only the drained connections that are not
\* keep-alive.
flush_conversation_drained_only(close, event_id, fl) ==
    IF fl.drained /\ ~fl.keep_alive THEN Append(close, event_id) ELSE close

\* The body of the loop of flush_conversations for one conversation: the list
\* of conversation event IDs to close, extended.
flush_conversation(close, event_id, fl) ==
    LET close1 == IF fl.try_flush = "Err" THEN Append(close, event_id) ELSE close
    IN  IF fl.drained /\ ~fl.keep_alive THEN Append(close1, event_id) ELSE close1

\* unresponsive that also wants the connection itself to be older than the
\* idle timeout.
unresponsive_since_connection(ids, times, now) ==
    { event_id \in ids :
        LET last_request_time ==
                IF times[event_id].last_request_time = 0
                THEN times[event_id].connection_time
                ELSE times[event_id].last_request_time
            last_response_time ==
                IF times[event_id].last_response_time = 0
                THEN times[event_id].connection_time
                ELSE times[event_id].last_response_time
        IN  /\ last_request_time + connection_opts.idle_timeout < now
            /\ last_response_time + connection_opts.idle_timeout < now
            /\ times[event_id].connection_time + connection_opts.idle_timeout < now }

\* unresponsive with || in place of && between the two tests.
unresponsive_either(ids, times, now) ==
    { event_id \in ids :
        LET last_request_time ==
                IF times[event_id].last_request_time = 0
                THEN times[event_id].connection_time
                ELSE times[event_id].last_request_time
            last_response_time ==
                IF times[event_id].last_response_time = 0
                THEN times[event_id].connection_time
                ELSE times[event_id].last_response_time
        IN  \/ last_request_time + connection_opts.idle_timeout < now
            \/ last_response_time + connection_opts.idle_timeout < now }

\* unresponsive without the connection time in place of a time that is 0.
unresponsive_no_default(ids, times, now) ==
    { event_id \in ids :
        /\ times[event_id].last_request_time + connection_opts.idle_timeout < now
        /\ times[event_id].last_response_time + connection_opts.idle_timeout < now }

\* The event ids disconnect_unresponsive removes at time now, given what
\* get_last_request_time, get_last_response_time and get_connection_time
\* return for each conversation.
unresponsive(ids, times, now) ==
    { event_id \in ids :
        LET last_request_time ==
                IF times[event_id].last_request_time = 0
                THEN times[event_id].connection_time
                ELSE times[event_id].last_request_time
            last_response_time ==
                IF times[event_id].last_response_time = 0
                THEN times[event_id].connection_time
                ELSE times[event_id].last_response_time
        IN  /\ last_request_time + connection_opts.idle_timeout < now
            /\ last_response_time + connection_opts.idle_timeout < now }

\* Remove slow/unresponsive peers.
disconnect_unresponsive(S, times, now) ==
    deregister_all(S, SortedSeq(unresponsive(DOMAIN S.peers, times, now)))

\* ------------------------------------------------------------------ actions

NoRet == [ op |-> "none", arg |-> NoUrl, res |-> "none", id |-> 0 ]

NoLast == [ step |-> "none" ]

\* What is recorded for a conversation that was not flushed.
NoFlush == [ try_flush |-> "NA", drained |-> FALSE, keep_alive |-> FALSE ]

\* ----------------------------------------------- the signer's StackerDB client

\* A u32 is kept at its width as the pair << high half, low half >> of 16-bit
\* halves.
U16_MAX == 65535
U32_MAX == << U16_MAX, U16_MAX >>
U32(n) == << 0, n >>

\* MessageSlotID::ALL (libsigner/src/v0/messages.rs).
MessageSlotIDs == { "BlockResponse", "MockSignature" }

\* u32::saturating_add(1).
saturating_add_1(v) ==
    IF v[2] < U16_MAX THEN << v[1], v[2] + 1 >>
    ELSE IF v[1] < U16_MAX THEN << v[1] + 1, 0 >>
    ELSE v

\* Option::None for StackerDBChunkAckData.metadata, and for a version not sent.
NoMetadata == << >>

\* The slot versions a StackerDB reports in StackerDBChunkAckData.metadata.
ReportedVersions == { U32(0), U32(2), U32_MAX }

\* StackerDBChunkAckData, as put_chunk can yield it.
ChunkAcks ==
    [ accepted : BOOLEAN,
      reason : { "None", "Some" },
      metadata : { NoMetadata } \cup ReportedVersions,
      code : { "None", "DataAlreadyExists", "NoSuchSlot" } ]

NoAck == [ accepted |-> FALSE, reason |-> "None", metadata |-> NoMetadata, code |-> "None" ]

\* What one turn of the loop meets: chunk.sign fails, or
\* retry_with_exponential_backoff gives up, or put_chunk yields an ack.
PutOutcomes ==
    { [ kind |-> "sign_err", ack |-> NoAck ], [ kind |-> "put_err", ack |-> NoAck ] }
        \cup { [ kind |-> "ack", ack |-> a ] : a \in ChunkAcks }

\* One turn of send_message_bytes_with_retry's loop that does not return on an
\* accepted ack.
send_message_bytes_turn_ignore_accepted(slot_versions, msg_id, o) ==
    LET known == msg_id \in DOMAIN slot_versions
        slot_version == IF known THEN slot_versions[msg_id] ELSE U32(1)
        V0 == IF known THEN slot_versions ELSE Put(slot_versions, msg_id, U32(0))
        V1 == Put(V0, msg_id, saturating_add_1(slot_version))
    IN  IF o.kind = "sign_err"
        THEN [ slot_versions |-> V0, sent |-> NoMetadata, res |-> "SignError" ]
        ELSE IF o.kind = "put_err"
        THEN [ slot_versions |-> V0, sent |-> slot_version, res |-> "PutError" ]
        ELSE IF o.ack.code = "None"
        THEN [ slot_versions |-> V1, sent |-> slot_version, res |-> "Retry" ]
        ELSE IF o.ack.code = "DataAlreadyExists"
        THEN [ slot_versions |->
                   Put(V1, msg_id,
                       saturating_add_1(IF o.ack.metadata # NoMetadata
                                        THEN o.ack.metadata ELSE slot_version)),
               sent |-> slot_version, res |-> "Retry" ]
        ELSE [ slot_versions |-> V1, sent |-> slot_version, res |-> "PutChunkRejected" ]

\* One turn of send_message_bytes_with_retry's loop for the message id msg_id:
\* the version read from (or started in) slot_versions, the chunk signed and
\* put, the version recorded, the ack examined.  sent is the version of the
\* chunk given to put_chunk; res is what the call returns, or "Retry" when the
\* loop goes round again.  slot_versions maps a message id to the version kept
\* for this signer's slot (the inner maps never hold another slot).
send_message_bytes_turn(slot_versions, msg_id, o) ==
    LET known == msg_id \in DOMAIN slot_versions
        slot_version == IF known THEN slot_versions[msg_id] ELSE U32(1)
        V0 == IF known THEN slot_versions ELSE Put(slot_versions, msg_id, U32(0))
        V1 == Put(V0, msg_id, saturating_add_1(slot_version))
    IN  IF o.kind = "sign_err"
        THEN [ slot_versions |-> V0, sent |-> NoMetadata, res |-> "SignError" ]
        ELSE IF o.kind = "put_err"
        THEN [ slot_versions |-> V0, sent |-> slot_version, res |-> "PutError" ]
        ELSE IF o.ack.accepted
        THEN [ slot_versions |-> V1, sent |-> slot_version, res |-> "Ok" ]
        ELSE IF o.ack.code = "None"
        THEN [ slot_versions |-> V1, sent |-> slot_version, res |-> "Retry" ]
        ELSE IF o.ack.code = "DataAlreadyExists"
        THEN [ slot_versions |->
                   Put(V1, msg_id,
                       saturating_add_1(IF o.ack.metadata # NoMetadata
                                        THEN o.ack.metadata ELSE slot_version)),
               sent |-> slot_version, res |-> "Retry" ]
        ELSE [ slot_versions |-> V1, sent |-> slot_version, res |-> "PutChunkRejected" ]

\* The versions a StackerDB can hold of a slot before the signer's first send:
\* none written, small ones, those around the carry between the halves, and
\* the two largest.
StoredVersions ==
    { U32(0), U32(1), U32(2), << 0, U16_MAX >>, << 1, 0 >>,
      << U16_MAX, U16_MAX - 1 >>, U32_MAX }

\* The StackerDB is not there: no slot holds a version.
NoStored == EmptyMap

\* a > b, for two u32.
u32_gt(a, b) == a[1] > b[1] \/ (a[1] = b[1] /\ a[2] > b[2])

\* put_chunk on a StackerDB that holds the version stored_version of the slot:
\* it accepts the chunk exactly when the chunk's version is greater, and
\* otherwise rejects it with DataAlreadyExists, reporting the version it holds.
put_chunk(stored_version, slot_version) ==
    IF u32_gt(slot_version, stored_version)
    THEN [ accepted |-> TRUE, reason |-> "None", metadata |-> NoMetadata, code |-> "None" ]
    ELSE [ accepted |-> FALSE, reason |-> "Some", metadata |-> stored_version,
           code |-> "DataAlreadyExists" ]

\* No send has returned.
NoSendRet == [ res |-> "none", ack |-> NoAck ]

\* StackerDB::new: no version recorded; no send in progress.  at is the
\* position of the send ("idle", "loop", "done"); attempts counts the put_chunk
\* calls of the send that yielded an ack or gave up, accepted_at is the first of
\* them that yielded an accepted ack (0: none), ack the latest ack, sent the
\* version of the latest chunk, sends the number of sends so far.
NewStackerDB ==
    [ slot_versions |-> EmptyMap, at |-> "idle", msg_id |-> "none", attempts |-> 0,
      accepted_at |-> 0, ack |-> NoAck, sent |-> NoMetadata, ret |-> NoSendRet,
      sends |-> 0 ]

\* ------------------------------------------------ the signer's message codec

\* Values are kept as the codec sees them.  A fixed-width field (u32, u64, a
\* hash, a signature) is its big-endian byte array; a String is its bytes (the
\* strings of the model are ASCII); a Vec is a sequence; an enum is a record
\* with its variant in kind.  A reader reads fd from the position pos on and
\* yields [ ok, v, end ]: whether it succeeded, the value, and the position of
\* the first byte it has not read.  A reader fails when fd ends before the
\* last byte it needs.

Rep(n, b) == [ i \in 1..n |-> b ]

ReadFailed == [ ok |-> FALSE, v |-> << >>, end |-> 0 ]

\* read_next for a fixed-width field of n bytes (fd.read_exact).
read_bytes(fd, pos, n) ==
    IF Len(fd) >= pos + n - 1
    THEN [ ok |-> TRUE, v |-> SubSeq(fd, pos, pos + n - 1), end |-> pos + n ]
    ELSE ReadFailed

\* write_next for a u32 length: four bytes, big-endian.
write_len_u32(n) ==
    << (n \div 16777216) % 256, (n \div 65536) % 256, (n \div 256) % 256, n % 256 >>

\* read_next for a u32 length at pos, of which four bytes are there: lengths
\* beyond 65535 are beyond every fd of the model, and read as 65536.
read_len_u32(fd, pos) ==
    IF fd[pos] # 0 \/ fd[pos + 1] # 0 THEN 65536
    ELSE fd[pos + 2] * 256 + fd[pos + 3]

\* read_next::<Vec<u8>>: a u32 length, then as many bytes.
read_vec_u8(fd, pos) ==
    IF Len(fd) >= pos + 3
    THEN read_bytes(fd, pos + 4, read_len_u32(fd, pos))
    ELSE ReadFailed

\* String::from_utf8 on the bytes read: ASCII is valid UTF-8.
from_utf8_ok(bytes) == \A i \in 1..Len(bytes) : bytes[i] < 128

\* `len as u8`: the cast keeps the low eight bits.
as_u8(n) == n % 256

\* impl StacksMessageCodec for PeerInfo.
PeerInfo_consensus_serialize(p) ==
    p.burn_block_height \o p.stacks_tip_consensus_hash \o p.stacks_tip
        \o p.stacks_tip_height \o << as_u8(Len(p.server_version)) >>
        \o p.server_version \o p.pox_consensus

\* The fields before the length byte take 8 + 20 + 32 + 8 bytes; the length
\* byte tells how many bytes of server_version to read before pox_consensus.
PeerInfo_consensus_deserialize(fd, pos) ==
    IF Len(fd) < pos + 68 THEN ReadFailed
    ELSE LET len_byte == fd[pos + 68]
             bytes == SubSeq(fd, pos + 69, pos + 68 + len_byte)
         IN  IF Len(fd) >= pos + 88 + len_byte /\ from_utf8_ok(bytes)
             THEN [ ok |-> TRUE,
                    v |-> [ burn_block_height |-> SubSeq(fd, pos, pos + 7),
                            stacks_tip_consensus_hash |-> SubSeq(fd, pos + 8, pos + 27),
                            stacks_tip |-> SubSeq(fd, pos + 28, pos + 59),
                            stacks_tip_height |-> SubSeq(fd, pos + 60, pos + 67),
                            pox_consensus |->
                                SubSeq(fd, pos + 69 + len_byte, pos + 88 + len_byte),
                            server_version |-> bytes ],
                    end |-> pos + 89 + len_byte ]
             ELSE ReadFailed

\* impl StacksMessageCodec for MockSignData.
MockSignData_consensus_serialize(d) ==
    PeerInfo_consensus_serialize(d.peer_info) \o d.event_burn_block_height \o d.chain_id

\* MockSignData::consensus_deserialize once peer_info is read: a u64, a u32.
MockSignData_after(peer_info, fd) ==
    IF peer_info.ok /\ Len(fd) >= peer_info.end + 11
    THEN [ ok |-> TRUE,
           v |-> [ peer_info |-> peer_info.v,
                   event_burn_block_height |->
                       SubSeq(fd, peer_info.end, peer_info.end + 7),
                   chain_id |-> SubSeq(fd, peer_info.end + 8, peer_info.end + 11) ],
           end |-> peer_info.end + 12 ]
    ELSE ReadFailed

MockSignData_consensus_deserialize(fd, pos) ==
    MockSignData_after(PeerInfo_consensus_deserialize(fd, pos), fd)

\* impl StacksMessageCodec for MockSignature.
MockSignature_consensus_serialize(g) ==
    g.signature \o MockSignData_consensus_serialize(g.sign_data)

\* MockSignature::consensus_deserialize once the 65 bytes of the signature
\* (from pos on) and sign_data are read.
MockSignature_after(sign_data, fd, pos) ==
    IF sign_data.ok
    THEN [ ok |-> TRUE,
           v |-> [ signature |-> SubSeq(fd, pos, pos + 64), sign_data |-> sign_data.v ],
           end |-> sign_data.end ]
    ELSE ReadFailed

MockSignature_consensus_deserialize(fd, pos) ==
    IF Len(fd) >= pos + 64
    THEN MockSignature_after(MockSignData_consensus_deserialize(fd, pos + 65), fd, pos)
    ELSE ReadFailed

\* write_next for a Vec<MockSignature>, after the length: the items.
RECURSIVE write_mock_signatures(_)
write_mock_signatures(items) ==
    IF items = << >> THEN << >>
    ELSE MockSignature_consensus_serialize(Head(items))
             \o write_mock_signatures(Tail(items))

\* read_next::<Vec<MockSignature>>, after the length: n more items, the ones
\* read so far being acc.
RECURSIVE read_mock_signatures(_, _, _, _)
read_mock_signatures_item(item, fd, n, acc) ==
    IF item.ok THEN read_mock_signatures(fd, item.end, n - 1, Append(acc, item.v))
    ELSE ReadFailed

read_mock_signatures(fd, pos, n, acc) ==
    IF n = 0 THEN [ ok |-> TRUE, v |-> acc, end |-> pos ]
    ELSE read_mock_signatures_item(MockSignature_consensus_deserialize(fd, pos), fd, n, acc)

\* impl StacksMessageCodec for MockMinerMessage.
MockMinerMessage_consensus_serialize(m) ==
    PeerInfo_consensus_serialize(m.peer_info) \o m.tenure_burn_block_height
        \o m.chain_id \o write_len_u32(Len(m.mock_signatures))
        \o write_mock_signatures(m.mock_signatures)

\* MockMinerMessage::consensus_deserialize once everything is read (the u64 and
\* the u32 follow peer_info).
MockMinerMessage_after(peer_info, mock_signatures, fd) ==
    IF mock_signatures.ok
    THEN [ ok |-> TRUE,
           v |-> [ peer_info |-> peer_info.v,
                   tenure_burn_block_height |->
                       SubSeq(fd, peer_info.end, peer_info.end + 7),
                   chain_id |-> SubSeq(fd, peer_info.end + 8, peer_info.end + 11),
                   mock_signatures |-> mock_signatures.v ],
           end |-> mock_signatures.end ]
    ELSE ReadFailed

\* MockMinerMessage::consensus_deserialize once peer_info is read: a u64, a
\* u32, the length of the Vec, its items.
MockMinerMessage_rest(peer_info, fd) ==
    IF peer_info.ok /\ Len(fd) >= peer_info.end + 15
    THEN MockMinerMessage_after(
             peer_info,
             read_mock_signatures(fd, peer_info.end + 16,
                                  read_len_u32(fd, peer_info.end + 12), << >>),
             fd)
    ELSE ReadFailed

MockMinerMessage_consensus_deserialize(fd, pos) ==
    MockMinerMessage_rest(PeerInfo_consensus_deserialize(fd, pos), fd)

\* RejectCodeTypePrefix, and RejectCodeTypePrefix::try_from.
RejectCodeTypePrefix(kind) ==
    CASE kind = "ValidationFailed" -> 0
      [] kind = "ConnectivityIssues" -> 1
      [] kind = "RejectedInPriorRound" -> 2
      [] kind = "NoSortitionView" -> 3
      [] kind = "SortitionViewMismatch" -> 4

RejectCodeKinds ==
    { "ValidationFailed", "ConnectivityIssues", "RejectedInPriorRound",
      "NoSortitionView", "SortitionViewMismatch" }

\* The u8 values of ValidateRejectCode: what ValidateRejectCode::try_from accepts.
ValidateRejectCodes == 0..6

\* impl StacksMessageCodec for RejectCode.  A variant without data has code 0.
RejectCode_consensus_serialize(c) ==
    << RejectCodeTypePrefix(c.kind) >>
        \o (IF c.kind = "ValidationFailed" THEN << c.code >> ELSE << >>)

RejectCode_consensus_deserialize(fd, pos) ==
    IF Len(fd) < pos \/ fd[pos] > 4 THEN ReadFailed
    ELSE IF fd[pos] = 0
    THEN IF Len(fd) >= pos + 1 /\ fd[pos + 1] \in ValidateRejectCodes
         THEN [ ok |-> TRUE, v |-> [ kind |-> "ValidationFailed", code |-> fd[pos + 1] ],
                end |-> pos + 2 ]
         ELSE ReadFailed
    ELSE [ ok |-> TRUE,
           v |-> [ kind |-> CHOOSE k \in RejectCodeKinds : RejectCodeTypePrefix(k) = fd[pos],
                   code |-> 0 ],
           end |-> pos + 1 ]

\* impl StacksMessageCodec for BlockRejection.
BlockRejection_consensus_serialize(r) ==
    write_len_u32(Len(r.reason)) \o r.reason
        \o RejectCode_consensus_serialize(r.reason_code) \o r.signer_signature_hash

\* BlockRejection::consensus_deserialize once the reason and the code are read.
BlockRejection_after(reason_bytes, reason_code, fd) ==
    IF reason_code.ok /\ Len(fd) >= reason_code.end + 31
    THEN [ ok |-> TRUE,
           v |-> [ reason |-> reason_bytes.v, reason_code |-> reason_code.v,
                   signer_signature_hash |->
                       SubSeq(fd, reason_code.end, reason_code.end + 31) ],
           end |-> reason_code.end + 32 ]
    ELSE ReadFailed

\* BlockRejection::consensus_deserialize once the bytes of the reason are read.
BlockRejection_rest(reason_bytes, fd) ==
    IF reason_bytes.ok /\ from_utf8_ok(reason_bytes.v)
    THEN BlockRejection_after(reason_bytes,
                              RejectCode_consensus_deserialize(fd, reason_bytes.end), fd)
    ELSE ReadFailed

BlockRejection_consensus_deserialize(fd, pos) ==
    BlockRejection_rest(read_vec_u8(fd, pos), fd)

\* impl StacksMessageCodec for BlockResponse: Accepted = 0, Rejected = 1.
BlockResponse_consensus_serialize(b) ==
    IF b.kind = "Accepted" THEN << 0 >> \o b.hash \o b.sig
    ELSE << 1 >> \o BlockRejection_consensus_serialize(b.rejection)

\* BlockResponse::Rejected around the rejection read.
BlockResponse_rejected(rejection) ==
    IF rejection.ok
    THEN [ ok |-> TRUE, v |-> [ kind |-> "Rejected", rejection |-> rejection.v ],
           end |-> rejection.end ]
    ELSE ReadFailed

BlockResponse_consensus_deserialize(fd, pos) ==
    IF Len(fd) < pos THEN ReadFailed
    ELSE IF fd[pos] = 0
    THEN IF Len(fd) >= pos + 97
         THEN [ ok |-> TRUE,
                v |-> [ kind |-> "Accepted", hash |-> SubSeq(fd, pos + 1, pos + 32),
                        sig |-> SubSeq(fd, pos + 33, pos + 97) ],
                end |-> pos + 98 ]
         ELSE ReadFailed
    ELSE IF fd[pos] = 1
    THEN BlockResponse_rejected(BlockRejection_consensus_deserialize(fd, pos + 1))
    ELSE ReadFailed

\* NakamotoBlock and BlockProposal are defined outside these sources: a block
\* is kept as an opaque array of four bytes, a proposal is the block, its
\* burn_height and its reward_cycle.
NakamotoBlock_consensus_serialize(block) == block

NakamotoBlock_consensus_deserialize(fd, pos) == read_bytes(fd, pos, 4)

BlockProposal_consensus_serialize(bp) ==
    NakamotoBlock_consensus_serialize(bp.block) \o bp.burn_height \o bp.reward_cycle

BlockProposal_after(block, fd) ==
    IF block.ok /\ Len(fd) >= block.end + 15
    THEN [ ok |-> TRUE,
           v |-> [ block |-> block.v,
                   burn_height |-> SubSeq(fd, block.end, block.end + 7),
                   reward_cycle |-> SubSeq(fd, block.end + 8, block.end + 15) ],
           end |-> block.end + 16 ]
    ELSE ReadFailed

BlockProposal_consensus_deserialize(fd, pos) ==
    BlockProposal_after(NakamotoBlock_consensus_deserialize(fd, pos), fd)

\* SignerMessageTypePrefix.
SignerMessageTypePrefix(kind) ==
    CASE kind = "BlockProposal" -> 0
      [] kind = "BlockResponse" -> 1
      [] kind = "BlockPushed" -> 2
      [] kind = "MockSignature" -> 3
      [] kind = "MockMinerMessage" -> 4

SignerMessageKinds ==
    { "BlockProposal", "BlockResponse", "BlockPushed", "MockSignature",
      "MockMinerMessage" }

\* impl StacksMessageCodec for SignerMessage: the prefix, then the variant's
\* own encoding.
SignerMessage_consensus_serialize(m) ==
    << SignerMessageTypePrefix(m.kind) >> \o
        CASE m.kind = "BlockProposal" -> BlockProposal_consensus_serialize(m.body)
          [] m.kind = "BlockResponse" -> BlockResponse_consensus_serialize(m.body)
          [] m.kind = "BlockPushed" -> NakamotoBlock_consensus_serialize(m.body)
          [] m.kind = "MockSignature" -> MockSignature_consensus_serialize(m.body)
          [] m.kind = "MockMinerMessage" -> MockMinerMessage_consensus_serialize(m.body)

\* The variant of SignerMessage around the body read.
SignerMessage_of(kind, body) ==
    IF body.ok
    THEN [ ok |-> TRUE, v |-> [ kind |-> kind, body |-> body.v ], end |-> body.end ]
    ELSE ReadFailed

\* SignerMessage::consensus_deserialize once the type prefix is known.
SignerMessage_body(kind, fd, pos) ==
    SignerMessage_of(
        kind,
        CASE kind = "BlockProposal" -> BlockProposal_consensus_deserialize(fd, pos)
          [] kind = "BlockResponse" -> BlockResponse_consensus_deserialize(fd, pos)
          [] kind = "BlockPushed" -> NakamotoBlock_consensus_deserialize(fd, pos)
          [] kind = "MockSignature" -> MockSignature_consensus_deserialize(fd, pos)
          [] kind = "MockMinerMessage" -> MockMinerMessage_consensus_deserialize(fd, pos))

SignerMessage_consensus_deserialize(fd, pos) ==
    IF Len(fd) < pos \/ fd[pos] > 4 THEN ReadFailed
    ELSE SignerMessage_body(
             CHOOSE k \in SignerMessageKinds : SignerMessageTypePrefix(k) = fd[pos],
             fd, pos + 1)

\* The types whose codec is exercised.
CodecTypes ==
    { "SignerMessage", "RejectCode", "BlockRejection", "BlockResponse", "MockSignData",
      "MockSignature", "MockMinerMessage", "PeerInfo" }

\* serialize_to_vec, for a value of the type.
consensus_serialize(type, m) ==
    CASE type = "SignerMessage" -> SignerMessage_consensus_serialize(m)
      [] type = "RejectCode" -> RejectCode_consensus_serialize(m)
      [] type = "BlockRejection" -> BlockRejection_consensus_serialize(m)
      [] type = "BlockResponse" -> BlockResponse_consensus_serialize(m)
      [] type = "MockSignData" -> MockSignData_consensus_serialize(m)
      [] type = "MockSignature" -> MockSignature_consensus_serialize(m)
      [] type = "MockMinerMessage" -> MockMinerMessage_consensus_serialize(m)
      [] type = "PeerInfo" -> PeerInfo_consensus_serialize(m)

\* read_next::<type, _>(&mut &bytes[..]).
consensus_deserialize(type, fd) ==
    CASE type = "SignerMessage" -> SignerMessage_consensus_deserialize(fd, 1)
      [] type = "RejectCode" -> RejectCode_consensus_deserialize(fd, 1)
      [] type = "BlockRejection" -> BlockRejection_consensus_deserialize(fd, 1)
      [] type = "BlockResponse" -> BlockResponse_consensus_deserialize(fd, 1)
      [] type = "MockSignData" -> MockSignData_consensus_deserialize(fd, 1)
      [] type = "MockSignature" -> MockSignature_consensus_deserialize(fd, 1)
      [] type = "MockMinerMessage" -> MockMinerMessage_consensus_deserialize(fd, 1)
      [] type = "PeerInfo" -> PeerInfo_consensus_deserialize(fd, 1)

\* The values the codec is given.  The lengths of server_version, in bytes:
\* empty, "0.0.0", the longest a length byte can tell, and longer ones.
ServerVersionLens == { 0, 5, 255, 256, 300 }

PeerInfos ==
    { [ burn_block_height |-> Rep(8, h),
        stacks_tip_consensus_hash |-> Rep(20, 1),
        stacks_tip |-> Rep(32, 2),
        stacks_tip_height |-> Rep(8, 3),
        pox_consensus |-> Rep(20, 4),
        server_version |-> Rep(n, 97) ] : h \in { 0, 7 }, n \in ServerVersionLens }

\* CHAIN_ID_MAINNET and CHAIN_ID_TESTNET.
ChainIds == { << 0, 0, 0, 1 >>, << 128, 0, 0, 0 >> }

MockSignDatas ==
    [ peer_info : PeerInfos, event_burn_block_height : { Rep(8, 5) }, chain_id : ChainIds ]

\* MessageSignature::empty(): 65 zero bytes.
MockSignatures == [ signature : { Rep(65, 0) }, sign_data : MockSignDatas ]

MockMinerMessages ==
    [ peer_info : PeerInfos,
      tenure_burn_block_height : { Rep(8, 6) },
      chain_id : { << 0, 0, 0, 1 >> },
      mock_signatures :
          { << >> } \cup
          { << g, g >> : g \in { x \in MockSignatures :
                                   /\ Len(x.sign_data.peer_info.server_version) = 5
                                   /\ x.sign_data.peer_info.burn_block_height = Rep(8, 0) } } ]

RejectCodes ==
    { [ kind |-> "ValidationFailed", code |-> c ] : c \in { 0, 2 } }
        \cup { [ kind |-> k, code |-> 0 ] : k \in RejectCodeKinds \ { "ValidationFailed" } }

BlockRejections ==
    [ reason : { << >>, << 98, 97, 100 >> },
      reason_code : RejectCodes,
      signer_signature_hash : { Rep(32, 1) } ]

BlockResponses ==
    { [ kind |-> "Accepted", hash |-> Rep(32, h), sig |-> Rep(65, 0) ] : h \in { 0, 2 } }
        \cup { [ kind |-> "Rejected", rejection |-> r ] : r \in BlockRejections }

NakamotoBlocks == { Rep(4, 0), Rep(4, 9) }

BlockProposals ==
    [ block : NakamotoBlocks, burn_height : { Rep(8, 1) }, reward_cycle : { Rep(8, 2) } ]

SignerMessages ==
    { [ kind |-> "BlockProposal", body |-> b ] : b \in BlockProposals }
        \cup { [ kind |-> "BlockResponse", body |-> b ] : b \in BlockResponses }
        \cup { [ kind |-> "BlockPushed", body |-> b ] : b \in NakamotoBlocks }
        \cup { [ kind |-> "MockSignature", body |-> b ] : b \in MockSignatures }
        \cup { [ kind |-> "MockMinerMessage", body |-> b ] : b \in MockMinerMessages }

CodecValues(type) ==
    CASE type = "SignerMessage" -> SignerMessages
      [] type = "RejectCode" -> RejectCodes
      [] type = "BlockRejection" -> BlockRejections
      [] type = "BlockResponse" -> BlockResponses
      [] type = "MockSignData" -> MockSignDatas
      [] type = "MockSignature" -> MockSignatures
      [] type = "MockMinerMessage" -> MockMinerMessages
      [] type = "PeerInfo" -> PeerInfos

\* No message is being encoded or decoded.
NoCodec ==
    [ at |-> "idle", type |-> "none", m |-> << >>, bytes |-> << >>, out |-> ReadFailed ]

\* Nothing watched yet: no run has returned, no conversation was driven or
\* flushed in the current run.
NoWatch ==
    [ runs |-> 0, prev_msgs |-> << >>, prev_drive |-> NoDrive,
      drive |-> NoDrive, flush |-> NoFlush ]

\* saturate_http_socket is not running.
NoSat == [ state |-> "idle", pending |-> 0, turn |-> 0, res |-> "NA" ]

EmptyTick ==
    [ new |-> {},           \* event ids of poll_state.new
      ready |-> {},         \* event ids of poll_state.ready
      promoted |-> {},      \* ready event ids that were pending
      established |-> {},   \* event ids with a conversation when the driving starts
      driven |-> {},        \* event ids process_http_conversation was called for
      dead |-> {},          \* driven event ids found not alive
      flushed |-> {},       \* event ids try_flush was called for
      flush_err |-> {},     \* event ids whose try_flush failed
      drained_nk |-> {},    \* event ids drained and not keep-alive at the flush
      evicted |-> {},       \* event ids disconnect_unresponsive removed
      failed |-> {} ]       \* event ids whose registration, driving or flush failed

SetRegistry(S) ==
    /\ peers' = S.peers
    /\ sockets' = S.sockets
    /\ connecting' = S.connecting
    /\ registered' = S.registered
    /\ dereg_calls' = S.dereg_calls
    /\ engine_registered' = S.engine_registered

\* HttpPeer::new, with the histories empty.
InitEngine ==
    /\ connection_opts \in ConnectionOptionChoices
    /\ peers = EmptyMap
    /\ sockets = EmptyMap
    /\ connecting = EmptyMap
    /\ next_event_id = 1
    /\ registered = {}
    /\ dereg_calls = [ e \in EventIds |-> 0 ]
    /\ engine_registered = {}
    /\ pc = "idle"
    /\ todo = << >>
    /\ to_remove = << >>
    /\ stacks_msgs = << >>
    /\ tick = EmptyTick
    /\ last = NoLast
    /\ ret = NoRet
    /\ watch = NoWatch
    /\ sat = NoSat

Init ==
    /\ InitEngine
    /\ stackerdb = NewStackerDB
    /\ codec = NoCodec
    /\ stored = NoStored

\* connect_http inserting the pending-connect entry before it registers the
\* socket with NetworkState.
connect_http_insert_first(data_url, request, fail) ==
    /\ pc = "idle"
    /\ pc' = "done"
    /\ last' = [ step |-> "connect", before |-> Registry, next |-> next_event_id,
                 request |-> request ]
    /\ UNCHANGED << connection_opts, peers, sockets, dereg_calls, todo, to_remove,
                    stacks_msgs, tick >>
    /\ IF find_free_conversation(Registry, data_url) # {}
       THEN /\ fail = "none"
            /\ \E event_id \in find_free_conversation(Registry, data_url) :
                   ret' = [ op |-> "connect", arg |-> data_url,
                            res |-> "AlreadyConnected", id |-> event_id ]
            /\ UNCHANGED << connecting, next_event_id, registered, engine_registered >>
       ELSE IF fail = "connect"
       THEN /\ ret' = [ op |-> "connect", arg |-> data_url,
                        res |-> "ConnectError", id |-> 0 ]
            /\ UNCHANGED << connecting, next_event_id, registered, engine_registered >>
       ELSE /\ next_event_id <= MaxEvents
            /\ next_event_id' = next_event_id + 1
            /\ connecting' =
                   Put(connecting, next_event_id,
                       [ socket |-> [ ip |-> ResolvedHost(data_url) ],
                         url |-> data_url, request |-> request ])
            /\ IF fail = "register"
               THEN /\ ret' = [ op |-> "connect", arg |-> data_url,
                                res |-> "RegisterError", id |-> 0 ]
                    /\ UNCHANGED << registered, engine_registered >>
               ELSE /\ registered' = registered \cup { next_event_id }
                    /\ engine_registered' = engine_registered \cup { next_event_id }
                    /\ ret' = [ op |-> "connect", arg |-> data_url,
                                res |-> "Ok", id |-> next_event_id ]

\* connect_http committing the socket and a conversation at once instead of a
\* pending-connect entry.
connect_http_established(data_url, request, fail) ==
    /\ pc = "idle"
    /\ pc' = "done"
    /\ last' = [ step |-> "connect", before |-> Registry, next |-> next_event_id,
                 request |-> request ]
    /\ UNCHANGED << connection_opts, connecting, dereg_calls, todo, to_remove,
                    stacks_msgs, tick >>
    /\ IF find_free_conversation(Registry, data_url) # {}
       THEN /\ fail = "none"
            /\ \E event_id \in find_free_conversation(Registry, data_url) :
                   ret' = [ op |-> "connect", arg |-> data_url,
                            res |-> "AlreadyConnected", id |-> event_id ]
            /\ UNCHANGED << peers, sockets, next_event_id, registered,
                            engine_registered >>
       ELSE IF fail = "connect"
       THEN /\ ret' = [ op |-> "connect", arg |-> data_url,
                        res |-> "ConnectError", id |-> 0 ]
            /\ UNCHANGED << peers, sockets, next_event_id, registered,
                            engine_registered >>
       ELSE /\ next_event_id <= MaxEvents
            /\ next_event_id' = next_event_id + 1
            /\ IF fail = "register"
               THEN /\ ret' = [ op |-> "connect", arg |-> data_url,
                                res |-> "RegisterError", id |-> 0 ]
                    /\ UNCHANGED << peers, sockets, registered, engine_registered >>
               ELSE /\ sockets' = Put(sockets, next_event_id,
                                      [ ip |-> ResolvedHost(data_url) ])
                    /\ peers' = Put(peers, next_event_id,
                                    ConversationHttp_new(ResolvedHost(data_url),
                                                         data_url))
                    /\ registered' = registered \cup { next_event_id }
                    /\ engine_registered' = engine_registered \cup { next_event_id }
                    /\ ret' = [ op |-> "connect", arg |-> data_url,
                                res |-> "Ok", id |-> next_event_id ]

\* Connect to a new remote HTTP endpoint.  fail names the NetworkState call that
\* fails, if any: "connect" (NetworkState::connect) or "register".
connect_http(data_url, request, fail) ==
    /\ pc = "idle"
    /\ pc' = "done"
    /\ last' = [ step |-> "connect", before |-> Registry, next |-> next_event_id,
                 request |-> request ]
    /\ UNCHANGED << connection_opts, peers, sockets, dereg_calls, todo, to_remove,
                    stacks_msgs, tick >>
    /\ IF find_free_conversation(Registry, data_url) # {}
       THEN /\ fail = "none"
            /\ \E event_id \in find_free_conversation(Registry, data_url) :
                   ret' = [ op |-> "connect", arg |-> data_url,
                            res |-> "AlreadyConnected", id |-> event_id ]
            /\ UNCHANGED << connecting, next_event_id, registered, engine_registered >>
       ELSE IF fail = "connect"
       THEN /\ ret' = [ op |-> "connect", arg |-> data_url,
                        res |-> "ConnectError", id |-> 0 ]
            /\ UNCHANGED << connecting, next_event_id, registered, engine_registered >>
       ELSE /\ next_event_id <= MaxEvents
            /\ next_event_id' = next_event_id + 1
            /\ IF fail = "register"
               THEN /\ ret' = [ op |-> "connect", arg |-> data_url,
                                res |-> "RegisterError", id |-> 0 ]
                    /\ UNCHANGED << connecting, registered, engine_registered >>
               ELSE /\ connecting' =
                           Put(connecting, next_event_id,
                               [ socket |-> [ ip |-> ResolvedHost(data_url) ],
                                 url |-> data_url, request |-> request ])
                    /\ registered' = registered \cup { next_event_id }
                    /\ engine_registered' = engine_registered \cup { next_event_id }
                    /\ ret' = [ op |-> "connect", arg |-> data_url,
                                res |-> "Ok", id |-> next_event_id ]

\* Deregister a socket/event pair, called by the owner of the engine.
Deregister(event_id) ==
    /\ pc = "idle"
    /\ pc' = "done"
    /\ SetRegistry(deregister_http(Registry, event_id))
    /\ ret' = [ op |-> "deregister", arg |-> NoUrl, res |-> "Ok", id |-> event_id ]
    /\ last' = [ step |-> "deregister", before |-> Registry ]
    /\ UNCHANGED << connection_opts, next_event_id, todo, to_remove, stacks_msgs, tick >>

\* The owner of the engine takes a conversation with get_conversation and hands
\* it a request: the conversation has a request in flight.
get_conversation(event_id) ==
    /\ pc = "idle"
    /\ event_id \in DOMAIN peers
    /\ peers[event_id].url # NoUrl
    /\ ~peers[event_id].inflight
    /\ peers' = [ peers EXCEPT ![event_id] = send_request(@) ]
    /\ UNCHANGED << connection_opts, sockets, connecting, next_event_id, registered,
                    dereg_calls, engine_registered, pc, todo, to_remove, stacks_msgs,
                    tick, last, ret >>

\* The newly accepted sockets a poll can report: up to MaxNew, each with its
\* peer's host and what fails while it is absorbed.
NewBatches ==
    UNION { [ 1..k -> Hosts \X NewSocketFailures ] : k \in 0..MaxNew }

\* The ready event ids a poll can report: up to MaxReady of the event ids handed
\* out before the poll (a socket is not new and ready in one batch).
ReadySets ==
    { r \in SUBSET ((1..(next_event_id - 1)) \ tick.new) : Cardinality(r) <= MaxReady }

\* run, first step: update the chain view and set up new inbound conversations.
\* The new sockets get the next event ids of NetworkState.
RunAbsorb(batch) ==
    /\ pc = "idle"
    /\ next_event_id + Len(batch) - 1 <= MaxEvents
    /\ LET new == [ i \in 1..Len(batch) |->
                      [ event_id |-> next_event_id + i - 1,
                        socket |-> [ ip |-> batch[i][1] ],
                        fail |-> batch[i][2] ] ]
           R == process_new_sockets(
                    [ S |-> Registry, reg |-> EmptyMap, res |-> "Ok" ], new)
       IN  /\ SetRegistry(R.S)
           /\ tick' = [ EmptyTick EXCEPT
                          !.new = { new[i].event_id : i \in 1..Len(new) },
                          !.failed = { e \in DOMAIN R.reg : R.reg[e].res # "Ok" } ]
           /\ last' = [ step |-> "absorb", reg |-> R.reg ]
           /\ IF R.res = "Ok"
              THEN pc' = "connecting" /\ ret' = ret
              ELSE /\ pc' = "done"
                   /\ ret' = [ op |-> "run", arg |-> NoUrl, res |-> R.res, id |-> 0 ]
    /\ next_event_id' = next_event_id + Len(batch)
    /\ todo' = << >>
    /\ to_remove' = << >>
    /\ stacks_msgs' = << >>
    /\ UNCHANGED connection_opts

\* run, second step: set up connected sockets.  ready is poll_state.ready.
RunConnecting(ready, fails) ==
    /\ pc = "connecting"
    /\ LET R == process_connecting_sockets(
                    [ S |-> Registry, reg |-> EmptyMap, res |-> "Ok" ],
                    SortedSeq(ready), fails)
       IN  /\ SetRegistry(R.S)
           /\ tick' = [ tick EXCEPT !.ready = ready,
                                    !.promoted = ready \cap DOMAIN connecting,
                                    !.established = DOMAIN R.S.peers,
                                    !.failed = @ \cup { e \in DOMAIN R.reg :
                                                          R.reg[e].res # "Ok" } ]
           /\ last' = [ step |-> "connecting", reg |-> R.reg ]
    /\ pc' = "ready"
    /\ todo' = SortedSeq(ready)
    /\ UNCHANGED << connection_opts, next_event_id, to_remove, stacks_msgs, ret >>

\* run, third step, once per ready event id: run an existing conversation.
DriveOne(o) ==
    /\ pc = "ready"
    /\ todo # << >>
    /\ last.step # "drive"
    /\ LET event_id == Head(todo)
           is_convo == event_id \in DOMAIN sockets /\ event_id \in DOMAIN peers
           D == process_ready_socket(
                    [ S |-> Registry, msgs |-> stacks_msgs, to_remove |-> to_remove ],
                    event_id, o)
       IN  /\ IF is_convo THEN o \in DriveOutcomes(peers[event_id]) ELSE o = NoDrive
           /\ SetRegistry(D.S)
           /\ stacks_msgs' = D.msgs
           /\ to_remove' = D.to_remove
           /\ tick' = [ tick EXCEPT
                          !.driven = IF is_convo THEN @ \cup { event_id } ELSE @,
                          !.dead = IF is_convo /\ Len(D.to_remove) > Len(to_remove)
                                   THEN @ \cup { event_id } ELSE @,
                          !.failed = IF is_convo /\ Len(D.to_remove) > Len(to_remove)
                                     THEN @ \cup { event_id } ELSE @ ]
           /\ last' = [ step |-> "drive", id |-> event_id, convo |-> is_convo, out |-> o ]
    /\ todo' = Tail(todo)
    /\ UNCHANGED << connection_opts, next_event_id, pc, ret >>

\* run, third step: the loop moves on to the next ready event id.
DriveNext ==
    /\ pc = "ready"
    /\ todo # << >>
    /\ last.step = "drive"
    /\ last' = NoLast
    /\ UNCHANGED << connection_opts, peers, sockets, connecting, next_event_id,
                    registered, dereg_calls, engine_registered, pc, todo, to_remove,
                    stacks_msgs, tick, ret, watch, sat, signer >>

\* DriveEnd going on to the eviction without the flush pass.
DriveEnd_skip_flush ==
    /\ pc = "ready"
    /\ todo = << >>
    /\ SetRegistry(deregister_all(Registry, to_remove))
    /\ last' = [ step |-> "drive_end", removed |-> to_remove ]
    /\ tick' = [ EmptyTick EXCEPT !.failed = tick.failed ]
    /\ pc' = "unresponsive"
    /\ to_remove' = << >>
    /\ UNCHANGED << connection_opts, next_event_id, todo, stacks_msgs, ret, watch, sat, signer >>

\* run, third step, after the loop: clear out the broken conversations.  The
\* flush then visits every conversation (peers.iter_mut(); the order of the
\* visits does not change what is closed, the model takes the ascending one).
DriveEnd ==
    /\ pc = "ready"
    /\ todo = << >>
    /\ LET S == deregister_all(Registry, to_remove)
       IN  SetRegistry(S) /\ todo' = SortedSeq(DOMAIN S.peers)
    /\ last' = [ step |-> "drive_end", removed |-> to_remove ]
    /\ tick' = [ EmptyTick EXCEPT !.failed = tick.failed ]
    /\ pc' = "flush"
    /\ to_remove' = << >>
    /\ UNCHANGED << connection_opts, next_event_id, stacks_msgs, ret, watch, sat, signer >>

\* run, fourth step, once per conversation: flush it and decide whether to close it.
FlushOne(fl) ==
    /\ pc = "flush"
    /\ todo # << >>
    /\ to_remove' = flush_conversation(to_remove, Head(todo), fl)
    /\ tick' = [ tick EXCEPT
                   !.flushed = @ \cup { Head(todo) },
                   !.flush_err = IF fl.try_flush = "Err" THEN @ \cup { Head(todo) } ELSE @,
                   !.failed = IF fl.try_flush = "Err" THEN @ \cup { Head(todo) } ELSE @,
                   !.drained_nk = IF fl.drained /\ ~fl.keep_alive
                                  THEN @ \cup { Head(todo) } ELSE @ ]
    /\ last' = [ step |-> "flush", id |-> Head(todo) ]
    /\ todo' = Tail(todo)
    /\ UNCHANGED << connection_opts, peers, sockets, connecting, next_event_id,
                    registered, dereg_calls, engine_registered, pc, stacks_msgs, ret >>

\* run, fourth step, after the loop: close the conversations marked for closing.
FlushEnd ==
    /\ pc = "flush"
    /\ todo = << >>
    /\ SetRegistry(deregister_all(Registry, to_remove))
    /\ last' = [ step |-> "flush_end", removed |-> to_remove ]
    /\ pc' = "unresponsive"
    /\ to_remove' = << >>
    /\ UNCHANGED << connection_opts, next_event_id, todo, stacks_msgs, tick, ret,
                    watch, sat, signer >>

\* What the conversations' clocks can read at the eviction, for the time now.
TimeSamples(now) ==
    { [ last_request_time |-> 0, last_response_time |-> 0,
        connection_time |-> now - connection_opts.idle_timeout - 1 ],
      [ last_request_time |-> 0, last_response_time |-> 0,
        connection_time |-> now - connection_opts.idle_timeout ],
      [ last_request_time |-> now - connection_opts.idle_timeout - 1,
        last_response_time |-> now,
        connection_time |-> now - connection_opts.idle_timeout - 1 ],
      [ last_request_time |-> now - connection_opts.idle_timeout,
        last_response_time |-> now - connection_opts.idle_timeout - 1,
        connection_time |-> now - connection_opts.idle_timeout - 1 ],
      [ last_request_time |-> now - connection_opts.idle_timeout - 1,
        last_response_time |-> now - connection_opts.idle_timeout - 1,
        connection_time |-> now ] }

\* run, last step: remove timed-out requests, clear out slow or non-responsive
\* peers, and return the messages.
RunUnresponsive(times, now) ==
    /\ pc = "unresponsive"
    /\ SetRegistry(disconnect_unresponsive(Registry, times, now))
    /\ tick' = [ tick EXCEPT !.evicted = unresponsive(DOMAIN peers, times, now) ]
    /\ last' = [ step |-> "unresponsive", times |-> times, now |-> now ]
    /\ ret' = [ op |-> "run", arg |-> NoUrl, res |-> "Ok", id |-> 0 ]
    /\ pc' = "done"
    /\ UNCHANGED << connection_opts, next_event_id, todo, to_remove, stacks_msgs >>

\* The call returns to the owner of the engine.
Return ==
    /\ pc = "done"
    /\ pc' = "idle"
    /\ ret' = NoRet
    /\ last' = NoLast
    /\ tick' = EmptyTick
    /\ stacks_msgs' = << >>
    /\ UNCHANGED << connection_opts, peers, sockets, connecting, next_event_id,
                    registered, dereg_calls, engine_registered, todo, to_remove,
                    watch, sat, signer >>

\* A run returns to the owner of the engine, in SpecOne: what the run returned
\* and what its conversation's methods returned become the previous run's.
ReturnWatched ==
    /\ pc = "done"
    /\ pc' = "idle"
    /\ ret' = NoRet
    /\ last' = NoLast
    /\ tick' = EmptyTick
    /\ stacks_msgs' = << >>
    /\ watch' = [ runs |-> IF watch.runs < 2 THEN watch.runs + 1 ELSE 2,
                  prev_msgs |-> stacks_msgs, prev_drive |-> watch.drive,
                  drive |-> NoDrive, flush |-> NoFlush ]
    /\ UNCHANGED << sat, signer >>
    /\ UNCHANGED << connection_opts, peers, sockets, connecting, next_event_id,
                    registered, dereg_calls, engine_registered, todo, to_remove >>

\* The failures register_http can meet for a pending event id.
PromotionFailures(e) ==
    IF connecting[e].request THEN RegisterFailures ELSE { "none", "peer_addr" }

Connect ==
    /\ pc = "idle"
    /\ \E data_url \in Urls, request \in BOOLEAN, fail \in { "none", "connect", "register" } :
          connect_http(data_url, request, fail)
    /\ UNCHANGED << watch, sat, signer >>

DeregisterCall ==
    /\ pc = "idle"
    /\ \E event_id \in EventIds : Deregister(event_id)
    /\ UNCHANGED << watch, sat, signer >>

SendRequestCall ==
    /\ pc = "idle"
    /\ \E event_id \in EventIds : get_conversation(event_id)
    /\ UNCHANGED << watch, sat, signer >>

Absorb ==
    /\ pc = "idle"
    /\ \E batch \in NewBatches : RunAbsorb(batch)
    /\ UNCHANGED << watch, sat, signer >>

Promote ==
    /\ pc = "connecting"
    /\ \E ready \in ReadySets :
          \E fails \in [ ready \cap DOMAIN connecting -> RegisterFailures ] :
              /\ \A e \in ready \cap DOMAIN connecting : fails[e] \in PromotionFailures(e)
              /\ RunConnecting(ready, fails)
    /\ UNCHANGED << watch, sat, signer >>

Drive ==
    /\ pc = "ready"
    /\ todo # << >>
    /\ last.step # "drive"
    /\ \E o \in IF Head(todo) \in DOMAIN sockets /\ Head(todo) \in DOMAIN peers
              THEN DriveOutcomes(peers[Head(todo)])
              ELSE { NoDrive } :
          DriveOne(o)
    /\ UNCHANGED << watch, sat, signer >>

Flush ==
    /\ pc = "flush"
    /\ \E fl \in FlushOutcomes : FlushOne(fl)
    /\ UNCHANGED << watch, sat, signer >>

Evict ==
    /\ pc = "unresponsive"
    /\ \E now \in { connection_opts.idle_timeout + 2 } :
          \E times \in [ DOMAIN peers -> TimeSamples(now) ] : RunUnresponsive(times, now)
    /\ UNCHANGED << watch, sat, signer >>

Next ==
    \/ Connect
    \/ DeregisterCall
    \/ SendRequestCall
    \/ Absorb
    \/ Promote
    \/ Drive
    \/ DriveNext
    \/ DriveEnd
    \/ Flush
    \/ FlushEnd
    \/ Evict
    \/ Return

Spec == Init /\ [][Next]_vars

\* ------------------------------------------- one inbound connection, watched

\* The engine with one inbound socket and no outbound connection, run tick
\* after tick; watch records what the methods of its conversation returned in
\* the current run and what the previous run returned.

\* At most one socket is ever accepted: the first poll that reports it.
AbsorbOne ==
    /\ pc = "idle"
    /\ \E batch \in NewBatches :
           /\ Len(batch) <= 1
           /\ Len(batch) = 1 => next_event_id = 1
           /\ RunAbsorb(batch)
    /\ UNCHANGED << watch, sat, signer >>

DriveWatched ==
    /\ pc = "ready"
    /\ todo # << >>
    /\ last.step # "drive"
    /\ \E o \in IF Head(todo) \in DOMAIN sockets /\ Head(todo) \in DOMAIN peers
              THEN DriveOutcomes(peers[Head(todo)])
              ELSE { NoDrive } :
          /\ DriveOne(o)
          /\ watch' = [ watch EXCEPT !.drive = o ]
    /\ UNCHANGED << sat, signer >>

FlushWatched ==
    /\ pc = "flush"
    /\ \E fl \in FlushOutcomes :
           /\ FlushOne(fl)
           /\ watch' = [ watch EXCEPT !.flush = fl ]
    /\ UNCHANGED << sat, signer >>

NextOne ==
    \/ AbsorbOne
    \/ Promote
    \/ DriveWatched
    \/ DriveEnd
    \/ FlushWatched
    \/ FlushEnd
    \/ Evict
    \/ ReturnWatched

SpecOne == Init /\ [][NextOne]_vars

\* ------------------------------------------ one connection, the loops run

\* The engine with one connection, inbound or outbound, where
\* saturate_http_socket runs send by send.  The conversation holds sat.pending
\* bytes for its socket; sat.turn is the parity of the sends made so far.

\* ConversationHttp::send on a non-blocking socket: an error, or the number of
\* bytes it moved to the socket: at most what the conversation holds, 0 when
\* nothing is left ("sends the whole request") or the socket takes no more
\* ("fills the socket buffer").
SendResults(pending) ==
    { [ res |-> "Err", sz |-> 0 ] } \cup { [ res |-> "Ok", sz |-> n ] : n \in 0..pending }

\* saturate_http_socket leaving its loop on Ok(0) only: an error does not end it.
saturate_done_on_zero(send_res) == send_res.res = "Ok" /\ send_res.sz = 0

\* saturate_http_socket leaving its loop on an error only.
saturate_done_on_error(send_res) == send_res.res = "Err"

\* saturate_http_socket: the loop ends on Err(e), and on Ok(sz) with sz == 0.
saturate_done(send_res) == send_res.res = "Err" \/ send_res.sz = 0

\* saturate_http_socket is called: by register_http to prime a connection that
\* has an initial request, or by process_http_conversation after reply_error.
SaturateBegin ==
    /\ sat.state = "idle"
    /\ \/ /\ pc = "connecting"
          /\ \E e \in DOMAIN connecting : connecting[e].request
       \/ /\ pc = "ready"
          /\ todo # << >>
          /\ last.step # "drive"
          /\ Head(todo) \in DOMAIN sockets /\ Head(todo) \in DOMAIN peers
    /\ \E n \in 0..MaxPending :
           sat' = [ state |-> "looping", pending |-> n, turn |-> 0, res |-> "NA" ]
    /\ UNCHANGED << connection_opts, peers, sockets, connecting, next_event_id,
                    registered, dereg_calls, engine_registered, pc, todo, to_remove,
                    stacks_msgs, tick, last, ret, watch, signer >>

\* One iteration of saturate_http_socket's loop.
SaturateSend ==
    /\ sat.state = "looping"
    /\ \E send_res \in SendResults(sat.pending) :
           sat' = IF saturate_done(send_res)
                  THEN [ state |-> "returned", pending |-> sat.pending - send_res.sz,
                         turn |-> 1 - sat.turn, res |-> send_res.res ]
                  ELSE [ sat EXCEPT !.pending = @ - send_res.sz, !.turn = 1 - @ ]
    /\ UNCHANGED << connection_opts, peers, sockets, connecting, next_event_id,
                    registered, dereg_calls, engine_registered, pc, todo, to_remove,
                    stacks_msgs, tick, last, ret, watch, signer >>

\* At most one connection is ever opened: the first call asks for it.
ConnectOne ==
    /\ next_event_id = 1
    /\ Connect

\* Set up the connected sockets; a saturate that ran was the priming of the
\* pending connection, and register_http goes on with what it returned.
PromoteLive ==
    /\ pc = "connecting"
    /\ sat.state # "looping"
    /\ \E ready \in ReadySets :
          \E fails \in [ ready \cap DOMAIN connecting -> RegisterFailures ] :
              /\ \A e \in ready \cap DOMAIN connecting :
                    /\ fails[e] \in PromotionFailures(e)
                    /\ (sat.state = "returned" /\ sat.res = "Err") <=> fails[e] = "saturate"
                    /\ (sat.state = "returned" /\ sat.res = "Ok")
                           <=> (connecting[e].request /\ fails[e] = "none")
              /\ sat.state = "returned" => ready \cap DOMAIN connecting # {}
              /\ RunConnecting(ready, fails)
    /\ sat' = NoSat
    /\ UNCHANGED << watch, signer >>

\* Run the next ready conversation; a saturate that ran was the one after
\* reply_error, and process_http_conversation goes on with what it returned.
DriveLive ==
    /\ pc = "ready"
    /\ todo # << >>
    /\ last.step # "drive"
    /\ sat.state # "looping"
    /\ \E o \in IF Head(todo) \in DOMAIN sockets /\ Head(todo) \in DOMAIN peers
              THEN DriveOutcomes(peers[Head(todo)])
              ELSE { NoDrive } :
          /\ (sat.state = "returned") <=> (o.saturate # "NA")
          /\ sat.state = "returned" => o.saturate = sat.res
          /\ DriveOne(o)
    /\ sat' = NoSat
    /\ UNCHANGED << watch, signer >>

NextLive ==
    \/ ConnectOne
    \/ AbsorbOne
    \/ SaturateBegin
    \/ SaturateSend
    \/ PromoteLive
    \/ DriveLive
    \/ DriveEnd
    \/ Flush
    \/ FlushEnd
    \/ Evict
    \/ Return

\* run is one call on one thread: once called, it keeps executing.
SpecLive == Init /\ [][NextLive]_vars /\ WF_vars(NextLive)

\* ------------------------------ one connect, then one inbound socket, ticking

\* The engine whose owner calls connect once, first, and then only run.  The
\* connect takes the identifier 1: it becomes a pending connection, or, when
\* the Reactor's register fails, an identifier that the engine holds in no map.
\* The identifier 2 goes to the one socket the Reactor accepts.  Any of the
\* identifiers handed out can be reported ready in any run.

\* At most one socket is ever accepted, after the connect.
AbsorbSecond ==
    /\ pc = "idle"
    /\ \E batch \in NewBatches :
           /\ Len(batch) <= 1
           /\ Len(batch) = 1 => next_event_id = 2
           /\ RunAbsorb(batch)
    /\ UNCHANGED << watch, sat, signer >>

NextPair ==
    \/ ConnectOne
    \/ AbsorbSecond
    \/ Promote
    \/ Drive
    \/ DriveNext
    \/ DriveEnd
    \/ Flush
    \/ FlushEnd
    \/ Evict
    \/ Return

SpecPair == Init /\ [][NextPair]_vars

\* ------------------------------------------------ StackerDB sends, on their own

\* The variables of HttpPeer and of its specifications.
engine == << connection_opts, peers, sockets, connecting, next_event_id, registered,
             dereg_calls, engine_registered, pc, todo, to_remove, stacks_msgs, tick,
             last, ret, watch, sat >>

\* send_message_bytes_with_retry is called (send_message_with_retry calls it
\* with message.msg_id() and the serialized message).
SendMessageBytes ==
    /\ stackerdb.at = "idle"
    /\ stackerdb.sends < MaxSends
    /\ \E msg_id \in MessageSlotIDs :
           stackerdb' = [ stackerdb EXCEPT !.at = "loop", !.msg_id = msg_id,
                                           !.sends = @ + 1 ]
    /\ UNCHANGED << engine, codec, stored >>

\* One turn of the loop.
PutChunk ==
    /\ stackerdb.at = "loop"
    /\ stackerdb.attempts < MaxAttempts
    /\ \E o \in PutOutcomes :
           LET T == send_message_bytes_turn(stackerdb.slot_versions, stackerdb.msg_id, o)
               n == IF o.kind = "sign_err" THEN stackerdb.attempts
                    ELSE stackerdb.attempts + 1
           IN  stackerdb' =
                   [ stackerdb EXCEPT
                       !.slot_versions = T.slot_versions,
                       !.sent = T.sent,
                       !.attempts = n,
                       !.ack = IF o.kind = "ack" THEN o.ack ELSE @,
                       !.accepted_at = IF @ = 0 /\ o.kind = "ack" /\ o.ack.accepted
                                       THEN n ELSE @,
                       !.at = IF T.res = "Retry" THEN "loop" ELSE "done",
                       !.ret = IF T.res = "Retry" THEN NoSendRet
                               ELSE [ res |-> T.res,
                                      ack |-> IF o.kind = "ack" THEN o.ack ELSE NoAck ] ]
    /\ UNCHANGED << engine, codec, stored >>

\* The send returns to the signer; the versions recorded stay.
SendReturn ==
    /\ stackerdb.at = "done"
    /\ stackerdb' = [ NewStackerDB EXCEPT !.slot_versions = stackerdb.slot_versions,
                                          !.sends = stackerdb.sends ]
    /\ UNCHANGED << engine, codec, stored >>

NextDB ==
    \/ SendMessageBytes
    \/ PutChunk
    \/ SendReturn

SpecDB == Init /\ [][NextDB]_vars

\* ------------------------------- StackerDB sends to a StackerDB that keeps versions

\* The signer is the only writer of its slots.  The StackerDB holds a version of
\* each slot when the signer starts, and answers every put_chunk by that
\* version: chunk.sign and the transport do not fail.
InitStored ==
    /\ InitEngine
    /\ stackerdb = NewStackerDB
    /\ codec = NoCodec
    /\ stored \in [ MessageSlotIDs -> StoredVersions ]

\* One turn of the loop: the chunk is put with the version the turn reads, and
\* an accepted chunk's version becomes the one the slot holds.
PutChunkStored ==
    /\ stackerdb.at = "loop"
    /\ stackerdb.attempts < MaxAttempts
    /\ LET slot_version == IF stackerdb.msg_id \in DOMAIN stackerdb.slot_versions
                           THEN stackerdb.slot_versions[stackerdb.msg_id]
                           ELSE U32(1)
           ack == put_chunk(stored[stackerdb.msg_id], slot_version)
           T == send_message_bytes_turn(stackerdb.slot_versions, stackerdb.msg_id,
                                        [ kind |-> "ack", ack |-> ack ])
           n == stackerdb.attempts + 1
       IN  /\ stackerdb' =
                   [ stackerdb EXCEPT
                       !.slot_versions = T.slot_versions,
                       !.sent = T.sent,
                       !.attempts = n,
                       !.ack = ack,
                       !.accepted_at = IF @ = 0 /\ ack.accepted THEN n ELSE @,
                       !.at = IF T.res = "Retry" THEN "loop" ELSE "done",
                       !.ret = IF T.res = "Retry" THEN NoSendRet
                               ELSE [ res |-> T.res, ack |-> ack ] ]
           /\ stored' = IF ack.accepted
                        THEN [ stored EXCEPT ![stackerdb.msg_id] = T.sent ]
                        ELSE stored
    /\ UNCHANGED << engine, codec >>

NextStored ==
    \/ SendMessageBytes
    \/ PutChunkStored
    \/ SendReturn

SpecStored == InitStored /\ [][NextStored]_vars

\* ------------------------------------------- the message codec, on its own

\* A value of one of the types is given to the codec.
InitCodec ==
    /\ InitEngine
    /\ stackerdb = NewStackerDB
    /\ stored = NoStored
    /\ \E type \in CodecTypes :
           codec \in { [ at |-> "value", type |-> type, m |-> m, bytes |-> << >>,
                         out |-> ReadFailed ] : m \in CodecValues(type) }

\* m.serialize_to_vec().
Serialize ==
    /\ codec.at = "value"
    /\ codec' = [ codec EXCEPT !.at = "bytes",
                               !.bytes = consensus_serialize(codec.type, codec.m) ]
    /\ UNCHANGED << engine, stackerdb, stored >>

\* read_next on the bytes.
Deserialize ==
    /\ codec.at = "bytes"
    /\ codec' = [ codec EXCEPT !.at = "decoded",
                               !.out = consensus_deserialize(codec.type, codec.bytes) ]
    /\ UNCHANGED << engine, stackerdb, stored >>

NextCodec ==
    \/ Serialize
    \/ Deserialize

SpecCodec == InitCodec /\ [][NextCodec]_vars

\* ------------------------------------------------------------------- claims

\* C1, as stated: when connect returns, every conversation that an earlier
\* connect to the same URL established, that has not been deregistered and has
\* no request in flight, is the one named: the call returns
\* AlreadyConnected(id1) and opens no second socket (no new identifier, no new
\* pending-connect entry).
C1_ConnectReturnsFirstId ==
    (pc = "done" /\ ret.op = "connect") =>
        \A id1 \in DOMAIN last.before.peers :
            ( /\ last.before.peers[id1].url = ret.arg
              /\ ~last.before.peers[id1].inflight )
            => /\ ret.res = "AlreadyConnected"
               /\ ret.id = id1
               /\ next_event_id = last.next
               /\ connecting = last.before.connecting

\* C1, amended: when some established conversation to the URL has no request in
\* flight, connect returns AlreadyConnected(id) for one of these conversations
\* (id1 when it is the only one), hands out no identifier, and leaves the
\* registry and the Reactor's registrations as they were.
C1_ConnectReusesFreeConversation ==
    (pc = "done" /\ ret.op = "connect") =>
        LET free == { id \in DOMAIN last.before.peers :
                        /\ last.before.peers[id].url = ret.arg
                        /\ ~last.before.peers[id].inflight }
        IN  free # {} => /\ ret.res = "AlreadyConnected"
                         /\ ret.id \in free
                         /\ next_event_id = last.next
                         /\ Registry = last.before

\* C1, witness: a connect answered with AlreadyConnected(id) while the
\* conversation id, opened by an earlier connect to that URL, is free.
C1_Witness ==
    /\ pc = "done"
    /\ ret.op = "connect"
    /\ ret.res = "AlreadyConnected"
    /\ ret.id \in DOMAIN peers
    /\ peers[ret.id].url = ret.arg
    /\ ~peers[ret.id].inflight

\* C2: immediately after deregister(id) returns, id is a key of none of the
\* three maps, also when id was only a pending outbound connection.
C2_NoDanglingRegistration ==
    (pc = "done" /\ ret.op = "deregister") =>
        ret.id \notin (DOMAIN peers \cup DOMAIN sockets \cup DOMAIN connecting)

\* C3: deregister(id) for an id that has no socket and no conversation (it was
\* deregistered before, or never registered) returns without error, leaves the
\* three maps unchanged and does not call the Reactor's deregister.
C3_DeregisterIdempotent ==
    ( /\ pc = "done"
      /\ ret.op = "deregister"
      /\ ret.id \notin (DOMAIN last.before.peers \cup DOMAIN last.before.sockets) )
    => /\ ret.res = "Ok"
       /\ peers = last.before.peers
       /\ sockets = last.before.sockets
       /\ connecting = last.before.connecting
       /\ dereg_calls = last.before.dereg_calls

\* C3, witness: a second deregister of an identifier that an earlier
\* deregistration released through the Reactor.
C3_Witness ==
    /\ pc = "done"
    /\ ret.op = "deregister"
    /\ ret.id \notin DOMAIN last.before.sockets
    /\ last.before.dereg_calls[ret.id] = 1
    /\ dereg_calls[ret.id] = 1

\* C4: every identifier the engine registered with the Reactor and that is no
\* longer in any of the three maps was released through the Reactor's
\* deregister exactly once.
C4_ExactlyOnceRelease ==
    \A id \in engine_registered :
        id \notin (DOMAIN peers \cup DOMAIN sockets \cup DOMAIN connecting)
        => dereg_calls[id] = 1

\* C5: no identifier is at once a key of the pending-connect map and a key of
\* the conversation or socket map.
C5_PendingOrEstablished ==
    DOMAIN connecting \cap (DOMAIN peers \cup DOMAIN sockets) = {}

\* C5, witness: the promotion phase has made a pending identifier established.
C5_Witness ==
    /\ pc = "ready"
    /\ tick.promoted \cap DOMAIN peers # {}

\* C6: after every public operation (connect, run, deregister) has completed,
\* the conversation map and the socket map have the same keys.
C6_ConversationIffSocket ==
    pc \in { "idle", "done" } => DOMAIN peers = DOMAIN sockets

\* C6, witness: a deregister that removed an established conversation while
\* another one stays established.
C6_Witness ==
    /\ pc = "done"
    /\ ret.op = "deregister"
    /\ ret.id \in DOMAIN last.before.peers
    /\ ret.id \notin DOMAIN peers
    /\ DOMAIN peers # {}

\* C7: a registration of an inbound socket (no target URL) that reaches the
\* admission check when the number of conversations plus one exceeds the
\* total-peer limit fails with TooManyPeers, the socket is deregistered from
\* the Reactor, and the identifier enters none of the maps.
C7_TotalCapRejects ==
    last.step \in { "absorb", "connecting" } =>
        \A id \in DOMAIN last.reg :
            ( /\ last.reg[id].fail # "peer_addr"
              /\ last.reg[id].url = NoUrl
              /\ last.reg[id].num_peers + 1 > connection_opts.num_clients )
            => /\ last.reg[id].res = "TooManyPeers"
               /\ dereg_calls[id] = 1
               /\ id \notin registered
               /\ id \notin (DOMAIN peers \cup DOMAIN sockets \cup DOMAIN connecting)

\* C7, witness: with total-peer limit 1 and one active conversation, a second
\* inbound socket was rejected.
C7_Witness ==
    /\ last.step = "absorb"
    /\ connection_opts.num_clients = 1
    /\ \E id \in DOMAIN last.reg :
           /\ last.reg[id].num_peers = 1
           /\ last.reg[id].res = "TooManyPeers"

\* C8: an inbound registration is rejected with TooManyPeers whenever the
\* number of established inbound conversations from the same host IP meets or
\* exceeds the per-host limit.
C8_PerHostCapRejects ==
    last.step \in { "absorb", "connecting" } =>
        \A id \in DOMAIN last.reg :
            ( /\ last.reg[id].fail # "peer_addr"
              /\ last.reg[id].url = NoUrl
              /\ last.reg[id].num_inbound >= connection_opts.max_clients_per_host )
            => last.reg[id].res = "TooManyPeers"

\* C9: when register_http cannot read the peer address of the socket it
\* returns SocketError, the socket has been deregistered from the Reactor, and
\* the identifier is in none of the maps.
C9_PeerAddrFailureReleases ==
    last.step \in { "absorb", "connecting" } =>
        \A id \in DOMAIN last.reg :
            last.reg[id].fail = "peer_addr"
            => /\ last.reg[id].res = "SocketError"
               /\ dereg_calls[id] >= 1
               /\ id \notin registered
               /\ id \notin (DOMAIN peers \cup DOMAIN sockets \cup DOMAIN connecting)

\* C10: run returns Ok whatever failed for single connections, and the tick
\* goes on for the others: a failed registration does not end the absorb phase,
\* every ready established conversation is driven even after another one was
\* found dead, every conversation is flushed, the messages returned come from
\* driven conversations, and the call reaches the eviction step.
C10_FailureContainment ==
    /\ (pc = "done" /\ ret.op = "run") => (ret.res = "Ok" /\ last.step = "unresponsive")
    /\ last.step = "absorb" => pc = "connecting"
    /\ (pc = "ready" /\ todo = << >>) =>
           /\ tick.driven = tick.ready \cap tick.established
           /\ SeqToSet(stacks_msgs) \subseteq tick.driven
    /\ (pc = "flush" /\ todo = << >>) => tick.flushed = DOMAIN peers

\* C10, witness: a run returned Ok although a connection failed in it, and
\* another connection was flushed in the same tick.
C10_Witness ==
    /\ pc = "done"
    /\ ret.op = "run"
    /\ ret.res = "Ok"
    /\ tick.failed # {}
    /\ tick.flushed \ tick.failed # {}


\* C11: an established conversation that, while driven, meets a receive error
\* other than malformed input (PermanentlyDrained included), a message-processing
\* error or a send error is marked dead, is deregistered when the driving ends,
\* and is in neither the conversation nor the socket map when run returns.
C11_DeadConversationsRemoved ==
    /\ ( /\ last.step = "drive"
         /\ last.convo
         /\ \/ last.out.recv \in { "PermanentlyDrained", "RecvError" }
            \/ last.out.chat = "Err"
            \/ last.out.send = "Err" )
       => /\ last.id \in tick.dead
          /\ last.id \in SeqToSet(to_remove)
    /\ pc = "ready" => tick.dead \subseteq SeqToSet(to_remove) \cap tick.failed
    /\ last.step = "drive_end" =>
           SeqToSet(last.removed) \cap (DOMAIN peers \cup DOMAIN sockets) = {}
    /\ (pc \in { "flush", "unresponsive" } \/ (pc = "done" /\ ret.op = "run")) =>
           (tick.failed \ tick.flush_err) \cap (DOMAIN peers \cup DOMAIN sockets) = {}

\* C11, witness: a driven conversation whose send failed after a successful
\* receive and a successful chat, marked dead.
C11_Witness ==
    /\ last.step = "drive"
    /\ last.convo
    /\ last.out.recv = "Ok"
    /\ last.out.chat # "Err"
    /\ last.out.send = "Err"
    /\ last.id \in tick.dead

\* C12, as stated: an outbound connection promoted from pending to established
\* during a tick is not driven (no receive, no chat, no send) in that tick.
C12_PromotedNotDriven ==
    tick.promoted \cap tick.driven = {}

\* C12, amended: the promotion primes a promoted connection with its initial
\* request, and the drive step of the same tick, which visits every ready
\* identifier that has a socket and a conversation, drives every promoted
\* connection whose registration succeeded and no other promoted one.
C12_PromotedPrimedThenDriven ==
    /\ last.step = "connecting" =>
           \A id \in DOMAIN last.reg :
               /\ id \in tick.promoted
               /\ last.reg[id].res = "Ok" =>
                      /\ id \in DOMAIN peers
                      /\ peers[id].url = last.reg[id].url
                      /\ peers[id].inflight = last.reg[id].request
               /\ last.reg[id].res # "Ok" => id \notin DOMAIN peers
    /\ (pc = "ready" /\ todo = << >>) =>
           tick.promoted \cap tick.driven = tick.promoted \cap tick.established
    /\ (last.step = "drive" /\ last.id \in tick.promoted) =>
           last.convo = (last.id \in tick.established)

\* C12, witness: a connection promoted with its initial request in this tick
\* is driven in this tick: a receive, a chat and a send are made on it.
C12_Witness ==
    /\ last.step = "drive"
    /\ last.convo
    /\ last.id \in tick.promoted
    /\ last.out.recv = "Ok"
    /\ last.out.chat = "Ok0"
    /\ last.out.send = "Ok"
    /\ peers[last.id].inflight

\* C13: within a run the phases follow one fixed order: absorb the new sockets,
\* promote the ready pending connections, drive the ready conversations and
\* deregister the dead ones, flush every conversation and deregister those
\* marked for closing, then clear the timeouts and evict the idle ones; at
\* every point of the run the latest step is one of the current or of the
\* preceding phase, and nothing of a later phase has happened yet.
C13_PhaseOrder ==
    /\ pc = "connecting" =>
           /\ last.step = "absorb"
           /\ tick.ready = {} /\ tick.promoted = {} /\ tick.driven = {}
           /\ tick.flushed = {} /\ tick.evicted = {}
    /\ pc = "ready" =>
           /\ last.step \in { "connecting", "drive", "none" }
           /\ last.step = "connecting" => tick.driven = {}
           /\ tick.flushed = {} /\ tick.evicted = {}
    /\ pc = "flush" =>
           /\ last.step \in { "drive_end", "flush" }
           /\ last.step = "drive_end" => tick.flushed = {}
           /\ tick.evicted = {}
    /\ pc = "unresponsive" =>
           /\ last.step = "flush_end"
           /\ DOMAIN peers \subseteq tick.flushed
           /\ tick.evicted = {}
    /\ (pc = "done" /\ ret.op = "run") =>
           /\ last.step = "unresponsive"
           /\ tick.evicted \subseteq tick.flushed

\* C13, witness: a run that returned after it flushed conversations and
\* evicted one of them in its last phase, and in which a connection failed.
C13_Witness ==
    /\ pc = "done"
    /\ ret.op = "run"
    /\ last.step = "unresponsive"
    /\ tick.failed # {}
    /\ tick.evicted # {}

\* C14: a conversation for which, at the eviction step, both the effective
\* last-request time plus idle_timeout and the effective last-response time
\* plus idle_timeout are before now is deregistered when run returns: it is in
\* neither map and the Reactor has released it.
C14_IdleEvicted ==
    (pc = "done" /\ last.step = "unresponsive") =>
        \A id \in DOMAIN last.times :
            LET t == last.times[id]
                effective_last_request ==
                    IF t.last_request_time = 0 THEN t.connection_time
                    ELSE t.last_request_time
                effective_last_response ==
                    IF t.last_response_time = 0 THEN t.connection_time
                    ELSE t.last_response_time
            IN  ( /\ effective_last_request + connection_opts.idle_timeout < last.now
                  /\ effective_last_response + connection_opts.idle_timeout < last.now )
                => /\ id \in tick.evicted
                   /\ id \notin (DOMAIN peers \cup DOMAIN sockets)
                   /\ id \notin registered
                   /\ dereg_calls[id] = 1

\* C14, witness: a conversation whose last request and last response are both
\* one second older than the idle timeout, on a connection made just now, was
\* evicted.
C14_Witness ==
    /\ pc = "done"
    /\ last.step = "unresponsive"
    /\ \E id \in tick.evicted :
           /\ last.times[id].last_request_time + connection_opts.idle_timeout + 1 = last.now
           /\ last.times[id].last_response_time + connection_opts.idle_timeout + 1 = last.now
           /\ last.times[id].connection_time = last.now
           /\ id \notin DOMAIN peers

\* C15: the eviction step deregisters no conversation whose effective
\* last-request time plus idle_timeout, or whose effective last-response time
\* plus idle_timeout, is at or after now: such a conversation is still
\* established when run returns, also when the other time is long past and also
\* when the time is exactly idle_timeout old.
C15_ActiveNotEvicted ==
    (pc = "done" /\ last.step = "unresponsive") =>
        \A id \in DOMAIN last.times :
            LET t == last.times[id]
                effective_last_request ==
                    IF t.last_request_time = 0 THEN t.connection_time
                    ELSE t.last_request_time
                effective_last_response ==
                    IF t.last_response_time = 0 THEN t.connection_time
                    ELSE t.last_response_time
            IN  ( \/ effective_last_request + connection_opts.idle_timeout >= last.now
                  \/ effective_last_response + connection_opts.idle_timeout >= last.now )
                => /\ id \notin tick.evicted
                   /\ id \in DOMAIN peers
                   /\ id \in DOMAIN sockets
                   /\ id \in registered

\* C15, witness: at one eviction step a conversation with an old request and a
\* recent response, and one whose request is exactly idle_timeout old and whose
\* response is older, were both kept.
C15_Witness ==
    /\ pc = "done"
    /\ last.step = "unresponsive"
    /\ \E id \in DOMAIN peers :
           /\ last.times[id].last_request_time + connection_opts.idle_timeout < last.now
           /\ last.times[id].last_response_time = last.now
    /\ \E id \in DOMAIN peers :
           /\ last.times[id].last_request_time + connection_opts.idle_timeout = last.now
           /\ last.times[id].last_response_time # 0
           /\ last.times[id].last_response_time + connection_opts.idle_timeout < last.now

\* C16: for a conversation that never got a request and never sent a response
\* the connection time stands for both times: the eviction step deregisters it
\* exactly when connection_time + idle_timeout < now.
C16_SilentEvictedByConnectionTime ==
    (pc = "done" /\ last.step = "unresponsive") =>
        \A id \in DOMAIN last.times :
            ( /\ last.times[id].last_request_time = 0
              /\ last.times[id].last_response_time = 0 )
            => IF last.times[id].connection_time + connection_opts.idle_timeout < last.now
               THEN /\ id \in tick.evicted
                    /\ id \notin (DOMAIN peers \cup DOMAIN sockets)
                    /\ dereg_calls[id] = 1
               ELSE /\ id \notin tick.evicted
                    /\ id \in DOMAIN peers

\* C16, witness: of two silent inbound conversations the one connected more
\* than idle_timeout ago was evicted and the one connected exactly
\* idle_timeout ago was kept.
C16_Witness ==
    /\ pc = "done"
    /\ last.step = "unresponsive"
    /\ \E id \in tick.evicted :
           /\ last.times[id].last_request_time = 0
           /\ last.times[id].last_response_time = 0
           /\ last.times[id].connection_time + connection_opts.idle_timeout < last.now
    /\ \E id \in DOMAIN peers :
           /\ peers[id].url = NoUrl
           /\ last.times[id].last_request_time = 0
           /\ last.times[id].last_response_time = 0
           /\ last.times[id].connection_time + connection_opts.idle_timeout = last.now

\* C17: a conversation that at the flush step reports is_drained() = true and
\* is_keep_alive() = false is marked for closing and, when the flush pass ends
\* and from then on until run returns, is in neither the conversation nor the
\* socket map and has been released through the Reactor's deregister once,
\* also when its try_flush succeeded.
C17_DrainAndClose ==
    /\ pc = "flush" => tick.drained_nk \subseteq SeqToSet(to_remove)
    /\ (pc = "unresponsive" \/ (pc = "done" /\ ret.op = "run")) =>
           \A id \in tick.drained_nk :
               /\ id \notin (DOMAIN peers \cup DOMAIN sockets)
               /\ id \notin registered
               /\ dereg_calls[id] = 1

\* C17, witness: run returned after it closed a conversation that was drained
\* and not keep-alive and for which nothing had failed in the tick.
C17_Witness ==
    /\ pc = "done"
    /\ ret.op = "run"
    /\ \E id \in tick.drained_nk \ tick.failed :
           /\ id \in tick.flushed
           /\ id \notin DOMAIN peers
           /\ dereg_calls[id] = 1

\* C18: when recv on an established conversation fails with InvalidMessage the
\* engine calls reply_error with a 400 response and, when that call succeeds,
\* tries to send the response; whether or not the response was written, the
\* connection is deregistered when that run returns: it is in neither the
\* conversation nor the socket map and the Reactor has released it.
C18_MalformedInputTearsDown ==
    (pc = "done" /\ ret.op = "run" /\ watch.drive.recv = "InvalidMessage") =>
        /\ watch.drive.reply # "NA"
        /\ watch.drive.reply = "Ok" => watch.drive.saturate # "NA"
        /\ DOMAIN peers = {}
        /\ DOMAIN sockets = {}
        /\ registered = {}

\* C19, as stated: in a tick whose only traffic is a socket whose recv returns
\* InvalidMessage, the message list run returns is empty.
C19_MalformedInputForwardsNothing ==
    (pc = "done" /\ ret.op = "run" /\ watch.drive.recv = "InvalidMessage") =>
        stacks_msgs = << >>

\* C19, amended: in a tick whose only traffic is a socket whose recv returns
\* InvalidMessage, the message list run returns is what the conversation's chat
\* returned in that tick: empty when the conversation held no fully parsed
\* message (or chat failed), and otherwise the messages it had parsed before
\* the malformed bytes; nothing is forwarded for the malformed bytes.
C19_MalformedInputForwardsOnlyParsed ==
    (pc = "done" /\ ret.op = "run" /\ watch.drive.recv = "InvalidMessage") =>
        stacks_msgs = IF watch.drive.chat = "Ok1" THEN << 1 >> ELSE << >>

\* C19, witness: a run whose only traffic failed parsing, with nothing parsed
\* before, returned an empty list after the 400 response was written.
C19_Witness ==
    /\ pc = "done"
    /\ ret.op = "run"
    /\ watch.drive.recv = "InvalidMessage"
    /\ watch.drive.saturate = "Ok"
    /\ watch.drive.chat = "Ok0"
    /\ stacks_msgs = << >>

\* C20: one inbound socket sends one request that is not keep-alive.  When a
\* run drove its conversation (the request was received, chat gave its one
\* message, the send succeeded) and in the following run, in which chat has no
\* further message to give, the conversation is drained and not keep-alive at
\* the flush, then the first of the two runs returned exactly that message, the
\* second returned none, so the two lists together hold exactly one message,
\* and after the second run the identifier is in none of the maps and the
\* Reactor has released it once.
C20_EndToEnd ==
    ( /\ pc = "done"
      /\ ret.op = "run"
      /\ watch.runs >= 1
      /\ watch.prev_drive.recv = "Ok"
      /\ watch.prev_drive.chat = "Ok1"
      /\ watch.prev_drive.send = "Ok"
      /\ watch.drive.chat # "Ok1"
      /\ watch.flush.drained
      /\ ~watch.flush.keep_alive )
    => /\ watch.prev_msgs = << 1 >>
       /\ stacks_msgs = << >>
       /\ Len(watch.prev_msgs \o stacks_msgs) = 1
       /\ 1 \notin (DOMAIN peers \cup DOMAIN sockets \cup DOMAIN connecting)
       /\ 1 \notin registered
       /\ dereg_calls[1] = 1

\* C20, witness: the second run of the scenario has returned: the run before
\* drove the conversation and returned its message, this run found the
\* conversation not ready, flushed it without error, drained and not
\* keep-alive, and closed it.
C20_Witness ==
    /\ pc = "done"
    /\ ret.op = "run"
    /\ watch.runs >= 1
    /\ watch.prev_drive.recv = "Ok"
    /\ watch.prev_drive.chat = "Ok1"
    /\ watch.prev_drive.send = "Ok"
    /\ watch.prev_msgs = << 1 >>
    /\ watch.drive = NoDrive
    /\ watch.flush = [ try_flush |-> "Ok", drained |-> TRUE, keep_alive |-> FALSE ]
    /\ stacks_msgs = << >>
    /\ DOMAIN peers = {}
    /\ dereg_calls[1] = 1

\* C21: a successful connect returns an identifier that was in no map before,
\* and that is now in the pending-connect map with the URL and the optional
\* initial request, and in neither established map.  register_http is called,
\* in a later run, only for new sockets and for pending identifiers the ready
\* set of that run contains: a pending identifier that is not in the ready set
\* stays pending and has no conversation and no socket.
C21_ConnectIsPendingUntilReady ==
    /\ (pc = "done" /\ ret.op = "connect" /\ ret.res = "Ok") =>
           /\ ret.id = last.next
           /\ ret.id \notin ( DOMAIN last.before.peers \cup DOMAIN last.before.sockets
                               \cup DOMAIN last.before.connecting )
           /\ ret.id \in DOMAIN connecting
           /\ connecting[ret.id].url = ret.arg
           /\ connecting[ret.id].request = last.request
           /\ ret.id \notin (DOMAIN peers \cup DOMAIN sockets)
           /\ peers = last.before.peers
           /\ sockets = last.before.sockets
    /\ last.step = "absorb" =>
           /\ DOMAIN last.reg \subseteq tick.new
           /\ \A id \in DOMAIN last.reg : last.reg[id].url = NoUrl
    /\ last.step = "connecting" =>
           /\ DOMAIN last.reg = tick.promoted
           /\ tick.promoted \subseteq tick.ready
           /\ DOMAIN connecting \cap tick.ready = {}
           /\ \A id \in DOMAIN peers :
                  peers[id].url # NoUrl =>
                      id \in tick.promoted \/ id \notin DOMAIN last.reg
    /\ \A id \in DOMAIN connecting :
           /\ id \notin (DOMAIN peers \cup DOMAIN sockets)
           /\ connecting[id].url # NoUrl

\* C21, witness: a promotion step has left one pending identifier, which was
\* not ready, pending, and has established another one, which was ready, with
\* the URL it was connected to.
C21_Witness ==
    /\ last.step = "connecting"
    /\ DOMAIN connecting # {}
    /\ \E id \in tick.promoted :
           /\ id \in DOMAIN peers
           /\ peers[id].url = last.reg[id].url
           /\ peers[id].url # NoUrl

\* C22: whenever connect returns an error (AlreadyConnected, the Reactor's
\* connect failed, the Reactor's register failed) the three maps are as they
\* were before the call, and so are the Reactor's registrations: no
\* pending-connect entry was added and no socket stays registered.
C22_ConnectErrorChangesNothing ==
    (pc = "done" /\ ret.op = "connect" /\ ret.res # "Ok") =>
        /\ ret.res \in { "AlreadyConnected", "ConnectError", "RegisterError" }
        /\ peers = last.before.peers
        /\ sockets = last.before.sockets
        /\ connecting = last.before.connecting
        /\ registered = last.before.registered
        /\ engine_registered = last.before.engine_registered
        /\ dereg_calls = last.before.dereg_calls

\* C22, witness: a connect failed at the Reactor's register, after the socket
\* was opened and an identifier taken for it, while another connection was
\* pending.
C22_Witness ==
    /\ pc = "done"
    /\ ret.op = "connect"
    /\ ret.res = "RegisterError"
    /\ next_event_id = last.next + 1
    /\ DOMAIN connecting # {}
    /\ connecting = last.before.connecting

\* C23: the registration of an outbound connection (one with a target URL)
\* is never rejected with TooManyPeers, whatever the registry holds: neither
\* the total-peer limit nor the per-host limit applies to it.
C23_OutboundNeverRejected ==
    last.step \in { "absorb", "connecting" } =>
        \A id \in DOMAIN last.reg :
            last.reg[id].url # NoUrl => last.reg[id].res # "TooManyPeers"

\* C24: every run call terminates: with a finite readiness batch and
\* conversations whose non-blocking send and receive always return (bytes, no
\* progress, or an error), no step of the tick, the saturate loop of the
\* priming and of the 400 reply included, goes on for ever: a run that has
\* started returns.
C24_RunTerminates ==
    (pc \in { "connecting", "ready", "flush", "unresponsive" }) ~> (pc = "done")

\* Inside a run, the saturate loop has returned Ok after a send that moved bytes
\* and a send that moved none.
C24_Witness ==
    /\ pc \in { "connecting", "ready" }
    /\ sat.state = "returned"
    /\ sat.res = "Ok"
    /\ sat.turn = 0
    /\ sat.pending > 0

\* C25: when put_chunk yields an ack with accepted = true, the send returns Ok
\* carrying exactly that ack, and makes no further put_chunk attempt.
C25_AcceptedAckReturned ==
    stackerdb.accepted_at # 0 =>
        /\ stackerdb.at = "done"
        /\ stackerdb.attempts = stackerdb.accepted_at
        /\ stackerdb.ack.accepted
        /\ stackerdb.ret = [ res |-> "Ok", ack |-> stackerdb.ack ]

\* A send has returned the accepted ack of its second put_chunk, an ack that
\* carries a reason and metadata.
C25_Witness ==
    /\ stackerdb.at = "done"
    /\ stackerdb.accepted_at = 2
    /\ stackerdb.ret.res = "Ok"
    /\ stackerdb.ret.ack.reason = "Some"
    /\ stackerdb.ret.ack.metadata = U32(2)

\* C26, as stated: for every SignerMessage value m of each of the five
\* variants, and for every RejectCode, BlockRejection, BlockResponse,
\* MockSignData, MockSignature and MockMinerMessage value,
\* consensus_deserialize(consensus_serialize(m)) succeeds and equals m.
C26_RoundTrip ==
    (codec.at = "decoded" /\ codec.type # "PeerInfo") =>
        codec.out.ok /\ codec.out.v = codec.m

\* C27: when register is given an initial request and send_request or the
\* saturation of the socket fails, register returns that error, the socket is
\* deregistered from the Reactor, and the id is inserted into none of the maps.
C27_PrimingFailure ==
    last.step = "connecting" =>
        \A id \in DOMAIN last.reg :
            ( /\ last.reg[id].request
              /\ last.reg[id].fail \in { "send_request", "saturate" }
              /\ last.reg[id].res # "TooManyPeers" )
            => /\ last.reg[id].res = IF last.reg[id].fail = "send_request"
                                     THEN "SendRequestError" ELSE "WriteError"
               /\ id \notin registered
               /\ dereg_calls[id] = 1
               /\ id \notin DOMAIN peers
               /\ id \notin DOMAIN sockets
               /\ id \notin DOMAIN connecting

\* Two pending connections with an initial request were ready: the priming of
\* one failed at send_request, the priming of the other at the saturation.
C27_Witness ==
    /\ last.step = "connecting"
    /\ \E a, b \in DOMAIN last.reg :
           /\ last.reg[a].request /\ last.reg[b].request
           /\ last.reg[a].fail = "send_request" /\ last.reg[a].res = "SendRequestError"
           /\ last.reg[b].fail = "saturate" /\ last.reg[b].res = "WriteError"

\* C28: for a ready established conversation, chat is invoked once in the
\* tick whatever recv returned, and the messages it yields are in the result of
\* run even when the same tick marks the conversation dead and deregisters it.
C28_ChatAlwaysDrained ==
    /\ watch.drive # NoDrive =>
           /\ watch.drive.chat \in { "Ok0", "Ok1", "Err" }
           /\ stacks_msgs = IF watch.drive.chat = "Ok1" THEN << 1 >> ELSE << >>
    /\ (pc = "done" /\ watch.drive # NoDrive /\ ret.op = "run"
           /\ ( \/ watch.drive.recv \in { "PermanentlyDrained", "RecvError" }
                \/ watch.drive.reply = "Err"
                \/ watch.drive.saturate = "Err"
                \/ watch.drive.chat = "Err"
                \/ watch.drive.send = "Err" ))
       => /\ 1 \notin DOMAIN peers
          /\ 1 \notin DOMAIN sockets
          /\ 1 \notin registered

\* A run has returned the message that chat yielded for a conversation whose
\* recv returned PermanentlyDrained; the conversation is gone.
C28_Witness ==
    /\ pc = "done"
    /\ ret.op = "run"
    /\ watch.drive.recv = "PermanentlyDrained"
    /\ watch.drive.chat = "Ok1"
    /\ stacks_msgs = << 1 >>
    /\ 1 \notin DOMAIN peers
    /\ dereg_calls[1] = 1

\* C29: every established conversation whose try_flush fails in the flush step
\* is deregistered by the end of that run, and a conversation marked for
\* closing twice in one flush pass (flush error, and drained but not keep-alive)
\* is released through the Reactor only once.
C29_FlushErrorsClosedOnce ==
    /\ pc \in { "unresponsive", "done" } =>
           \A id \in tick.flush_err :
               /\ id \notin DOMAIN peers
               /\ id \notin DOMAIN sockets
               /\ id \notin DOMAIN connecting
               /\ id \notin registered
               /\ dereg_calls[id] = 1
    /\ last.step = "flush_end" =>
           \A id \in tick.flush_err \cap tick.drained_nk :
               /\ Cardinality({ i \in 1..Len(last.removed) : last.removed[i] = id }) = 2
               /\ dereg_calls[id] = 1

\* The flush pass has marked one conversation twice, and another one for its
\* flush error alone; both are gone.
C29_Witness ==
    /\ last.step = "flush_end"
    /\ tick.flush_err \cap tick.drained_nk # {}
    /\ tick.flush_err \ tick.drained_nk # {}
    /\ \A id \in tick.flush_err : id \notin DOMAIN peers /\ dereg_calls[id] = 1

\* C30, as stated: after a run whose ready set contains a pending id, that id
\* is no longer in connecting; it is established if register succeeded and in
\* none of the maps if register failed.  Read where the run has driven its
\* ready set and cleared the broken conversations, after which it adds none.
C30_PromotedEstablishedAfterRun ==
    [][ (pc = "ready" /\ pc' = "flush") =>
            \A id \in tick.promoted :
                /\ id \notin DOMAIN connecting'
                /\ id \in tick.established
                       => (id \in DOMAIN peers' /\ id \in DOMAIN sockets')
                /\ id \notin tick.established
                       => (id \notin DOMAIN peers' /\ id \notin DOMAIN sockets') ]_vars

\* C30, amended: the promotion step of a run whose ready set contains a pending
\* id removes that id from connecting; when the step ends the id is established
\* if register succeeded and in none of the maps if register failed.  The rest
\* of the run never puts it back into connecting, but it drives the id it has
\* just established and may close it.
C30_PromotionConsumesPending ==
    /\ last.step = "connecting" =>
           /\ tick.promoted = DOMAIN last.reg
           /\ \A id \in tick.promoted :
                  /\ id \notin DOMAIN connecting
                  /\ last.reg[id].res = "Ok"
                         => (id \in DOMAIN peers /\ id \in DOMAIN sockets)
                  /\ last.reg[id].res # "Ok"
                         => (id \notin DOMAIN peers /\ id \notin DOMAIN sockets)
    /\ pc = "ready" =>
           \A id \in tick.promoted :
               /\ id \notin DOMAIN connecting
               /\ id \notin tick.established
                      => (id \notin DOMAIN peers /\ id \notin DOMAIN sockets)

\* Two pending connections were ready: one is established, the registration of
\* the other failed and it is in none of the maps.
C30_Witness ==
    /\ last.step = "connecting"
    /\ \E a, b \in tick.promoted :
           /\ last.reg[a].res = "Ok" /\ a \in DOMAIN peers
           /\ last.reg[b].res # "Ok" /\ b \notin DOMAIN peers
           /\ b \notin DOMAIN sockets /\ b \notin DOMAIN connecting

\* C31: connect reuses only free outbound conversations.  When every
\* established conversation to the URL has a request in flight (the inbound
\* conversations have no URL and never match), connect does not return
\* AlreadyConnected: it goes on to open a socket, and unless the Reactor's
\* connect or register fails it returns the next identifier of the Reactor,
\* which was in no map and is now pending with the URL, and leaves the
\* established conversations as they were.
C31_BusyConversationsNotReused ==
    ( /\ pc = "done"
      /\ ret.op = "connect"
      /\ \A id \in DOMAIN last.before.peers :
             last.before.peers[id].url = ret.arg => last.before.peers[id].inflight )
    => /\ ret.res \in { "Ok", "ConnectError", "RegisterError" }
       /\ ret.res = "Ok" =>
              /\ ret.id = last.next
              /\ next_event_id = last.next + 1
              /\ ret.id \notin ( DOMAIN last.before.peers \cup DOMAIN last.before.sockets
                                  \cup DOMAIN last.before.connecting )
              /\ DOMAIN connecting = DOMAIN last.before.connecting \cup { ret.id }
              /\ connecting[ret.id].url = ret.arg
              /\ ret.id \in registered
              /\ peers = last.before.peers

\* C31, witness: a connect returned a new pending identifier although a
\* conversation to the same URL was established: it had a request in flight.
C31_Witness ==
    /\ pc = "done"
    /\ ret.op = "connect"
    /\ ret.res = "Ok"
    /\ ret.id \in DOMAIN connecting
    /\ \E id \in DOMAIN peers : peers[id].url = ret.arg /\ peers[id].inflight

\* C32: saturate makes its sends one after another.  Each send either moves
\* bytes, and then the loop goes on to the next send, or ends the call: with
\* Ok when it reported zero bytes written, with the error when it failed.  Once
\* the call has returned it makes no further send.
C32_SaturateLoop ==
    [][ /\ ( sat.state = "looping" /\ sat' # sat ) =>
               /\ sat'.turn = 1 - sat.turn
               /\ sat'.pending <= sat.pending
               /\ (sat'.state = "looping") <=> (sat'.pending < sat.pending)
               /\ (sat'.state = "looping") => sat'.res = "NA"
               /\ (sat'.state # "looping") =>
                      sat'.state = "returned" /\ sat'.res \in { "Ok", "Err" }
        /\ ( sat.state = "returned" /\ sat' # sat ) => sat' = NoSat
        /\ ( sat.state = "idle" /\ sat' # sat ) =>
               sat'.state = "looping" /\ sat'.turn = 0 /\ sat'.res = "NA" ]_vars

\* C32, witness: a saturate whose first send moved bytes returned the error of
\* its second send, bytes still pending.
C32_Witness ==
    /\ sat.state = "returned"
    /\ sat.res = "Err"
    /\ sat.turn = 0
    /\ sat.pending > 0

\* C33: in every state that a sequence of connect, run and deregister calls
\* reaches, the number of established inbound conversations (those without a
\* target URL) is at most the configured total-peer limit num_clients.
C33_InboundWithinTotalLimit ==
    Cardinality({ id \in DOMAIN peers : peers[id].url = NoUrl })
        <= connection_opts.num_clients

\* C33, witness: the inbound conversations are as many as the limit allows, and
\* the run has just refused a new socket from a host that has no other
\* conversation.
C33_Witness ==
    /\ last.step = "absorb"
    /\ Cardinality({ id \in DOMAIN peers : peers[id].url = NoUrl })
           = connection_opts.num_clients
    /\ \E id \in DOMAIN last.reg :
           /\ last.reg[id].res = "TooManyPeers"
           /\ last.reg[id].num_inbound = 0

\* C34: a ready identifier that is in none of the engine's maps is rogue.  The
\* step of process_ready_sockets that visits it changes no map, makes no
\* Reactor deregister call and collects no message; the deregistrations after
\* the loop come out as if it had not been among the failed events; and
\* through the drive, the flush and the eviction of the run, an identifier that
\* is in no map gets no Reactor deregister call and enters no map.
C34_RogueReadyIgnored ==
    [][ LET in_maps(id) == id \in DOMAIN peers \cup DOMAIN sockets \cup DOMAIN connecting
            not_rogue(id) == in_maps(id)
        IN  /\ pc \in { "ready", "flush", "unresponsive" } =>
                   \A id \in EventIds :
                       ~in_maps(id) =>
                           /\ dereg_calls'[id] = dereg_calls[id]
                           /\ id \notin DOMAIN peers' \cup DOMAIN sockets'
                                            \cup DOMAIN connecting'
            /\ ( /\ pc = "ready"
                 /\ todo # << >>
                 /\ todo' = Tail(todo)
                 /\ ~in_maps(Head(todo)) ) =>
                   /\ peers' = peers
                   /\ sockets' = sockets
                   /\ connecting' = connecting
                   /\ registered' = registered
                   /\ dereg_calls' = dereg_calls
                   /\ stacks_msgs' = stacks_msgs
                   /\ to_remove' = Append(to_remove, Head(todo))
            /\ ( pc = "ready" /\ pc' = "flush" ) =>
                   LET S == deregister_all(Registry, SelectSeq(to_remove, not_rogue))
                   IN  /\ peers' = S.peers
                       /\ sockets' = S.sockets
                       /\ connecting' = S.connecting
                       /\ registered' = S.registered
                       /\ dereg_calls' = S.dereg_calls ]_vars

\* C34, witness: the run has deregistered the failed events of its ready set,
\* among them an identifier the engine never registered and that is in no map,
\* while a conversation is established; the Reactor's deregister was never
\* called for that identifier.
C34_Witness ==
    /\ last.step = "drive_end"
    /\ DOMAIN peers # {}
    /\ \E id \in SeqToSet(last.removed) :
           /\ id \notin engine_registered
           /\ id \notin DOMAIN peers \cup DOMAIN sockets \cup DOMAIN connecting
           /\ dereg_calls[id] = 0

\* C35: a pending connection leaves the pending-connect map only at the
\* promotion step of a run whose ready set contains its identifier.  The
\* steps that drive, flush and evict leave the map exactly as it is, and so
\* does every other step for the entries that stay: a pending connection that
\* is never reported ready stays pending, unchanged, tick after tick.
C35_PendingLeavesOnlyWhenReady ==
    [][ /\ \A id \in DOMAIN connecting :
               IF id \in DOMAIN connecting'
               THEN connecting'[id] = connecting[id]
               ELSE pc = "connecting" /\ pc' = "ready" /\ id \in tick'.ready
        /\ pc \in { "ready", "flush", "unresponsive", "done" } =>
               connecting' = connecting ]_vars

\* C35, witness: a run that evicted a conversation has returned, and a
\* connection, which its ready set did not contain, is still pending.
C35_Witness ==
    /\ pc = "done"
    /\ ret.op = "run"
    /\ tick.evicted # {}
    /\ DOMAIN connecting # {}

\* C36, as stated: after each put_chunk attempt that yields an ack for a chunk
\* of version v, the version recorded for the message id and this signer's slot
\* is v + 1, or metadata.slot_version + 1 when the ack is a DataAlreadyExists
\* rejection that carries slot metadata; and each attempt after the first of a
\* send is made with the version that was recorded.  The sums are those of the
\* integers: one more than u32::MAX is not u32::MAX.
C36_VersionBookkeeping ==
    [][ ( /\ stackerdb'.attempts = stackerdb.attempts + 1
          /\ stackerdb'.ret.res # "PutError" ) =>
            LET v == stackerdb'.sent
                recorded == stackerdb'.slot_versions[stackerdb.msg_id]
                ack == stackerdb'.ack
                plus_1(x) == IF x[2] < U16_MAX THEN << x[1], x[2] + 1 >>
                             ELSE << x[1] + 1, 0 >>
            IN  /\ recorded =
                       IF /\ ~ack.accepted
                          /\ ack.code = "DataAlreadyExists"
                          /\ ack.metadata # NoMetadata
                       THEN plus_1(ack.metadata)
                       ELSE plus_1(v)
                /\ stackerdb.attempts >= 1 =>
                       v = stackerdb.slot_versions[stackerdb.msg_id] ]_vars

\* C37, as stated: the loop of a send goes round again after a put_chunk
\* attempt only when the ack was a rejection with the DataAlreadyExists code; a
\* send that has returned after a rejected ack has returned PutChunkRejected.
C37_OnlyDataAlreadyExistsRetries ==
    /\ ( stackerdb.at = "loop" /\ stackerdb.attempts >= 1 ) =>
           ~stackerdb.ack.accepted /\ stackerdb.ack.code = "DataAlreadyExists"
    /\ ( /\ stackerdb.at = "done"
         /\ stackerdb.ret.res \notin { "SignError", "PutError" }
         /\ ~stackerdb.ret.ack.accepted ) =>
           /\ stackerdb.ret.res = "PutChunkRejected"
           /\ stackerdb.ret.ack.code # "DataAlreadyExists"

\* C38, as stated: against a StackerDB that accepts a chunk exactly when its
\* version is greater than the one it holds of the slot, and that the signer
\* alone writes, a send has returned once it has made two put_chunk attempts,
\* and a send that has returned has returned an accepted ack: whatever version
\* the slot held, u32::MAX included.
C38_AcceptedWithinTwoAttempts ==
    /\ stackerdb.attempts >= 2 => stackerdb.at = "done"
    /\ stackerdb.at = "done" =>
           /\ stackerdb.ret.res = "Ok"
           /\ stackerdb.ret.ack.accepted
           /\ stackerdb.attempts <= 2

\* C39, as stated: for every PeerInfo value p, whatever the length of its
\* server_version (also beyond the 255 bytes a single length byte can tell),
\* reading back the bytes p serializes to succeeds and yields p.
C39_PeerInfoRoundTrip ==
    (codec.at = "decoded" /\ codec.type = "PeerInfo") =>
        codec.out.ok /\ codec.out.v = codec.m

====
